---------------------------- MODULE Spec2Model ----------------------------
(***************************************************************************)
(* Model of the command-execution layer of azsap-mcp:                      *)
(*   tools/command_executor.py  (configuration store + command executor)   *)
(*   tools/disk_check.py        (check_disk_space and the df parser)       *)
(*                                                                         *)
(* Conventions                                                             *)
(*  - Python dicts are TLA+ functions; `k in d` is k \in DOMAIN d.         *)
(*  - A JSON object that is iterated (config["systems"]) is a sequence of  *)
(*    [key, cfg] pairs, in document order.                                 *)
(*  - Text that the code inspects character by character (SIDs, command    *)
(*    output) is a sequence of code points; bytes are numbers 0..255.      *)
(*    Text that is only passed around or compared whole is a TLA+ string.  *)
(*  - An f-string is [fmt |-> <the literal>, args |-> <<interpolated>>].   *)
(*  - A Python call either returns or raises: Return(v) / Raise(type,msg). *)
(***************************************************************************)
EXTENDS Integers, Sequences, FiniteSets, TLC

VARIABLES
    configFile,   \* content of config/executor_config.json, or Unreadable
    call,         \* the last entry-point call: operation and arguments
    ret,          \* what that call returned or raised
    procs,        \* local subprocesses started by that call
    sessions,     \* SSH clients created by that call
    hosts,        \* files and database of the machine the commands run on,
                  \* where a specification follows them (None elsewhere)
    azure,        \* the resources of the Azure subscription, where a
                  \* specification follows them (None elsewhere)
    connections   \* HanaConnection's cached connections and every connection
                  \* opened, where a specification follows them (None elsewhere)

vars == <<configFile, call, ret, procs, sessions, hosts, azure, connections>>

(***************************************************************************)
(* Python helpers                                                          *)
(***************************************************************************)
None == [none |-> TRUE]

Return(v) == [raised |-> FALSE, value |-> v]

Raise(type, msg) == [raised |-> TRUE, type |-> type, msg |-> msg]

\* f"...{a}...{b}..." : the literal with {0},{1} holes, and the values
Fmt(literal, args) == [fmt |-> literal, args |-> args]

\* the kinds of interpolated value
SidArg(s) == [sid |-> s]
StrArg(s) == [str |-> s]
MsgArg(m) == [msg |-> m]

\* d.get(k, default)
Get(d, k, default) == IF k \in DOMAIN d THEN d[k] ELSE default

\* (mutant) the merge with the precedence reversed
MergeFirstWins(a, b) ==
    [k \in (DOMAIN a) \cup (DOMAIN b) |-> IF k \in DOMAIN a THEN a[k] ELSE b[k]]

\* {**a, **b}
Merge(a, b) ==
    [k \in (DOMAIN a) \cup (DOMAIN b) |-> IF k \in DOMAIN b THEN b[k] ELSE a[k]]

EmptyDict == [k \in {} |-> None]

\* str.upper() on ASCII text: a..z (97..122) map to A..Z (65..90)
UpperChar(c) == IF c >= 97 /\ c <= 122 THEN c - 32 ELSE c

Upper(s) == [i \in DOMAIN s |-> UpperChar(s[i])]

(***************************************************************************)
(* Configuration store (tools/command_executor.py)                         *)
(***************************************************************************)
Unreadable == [unreadable |-> TRUE]

DEFAULT_SSH_CONFIG == [username |-> "root", port |-> 22]

\* load_system_config(): the parsed document, or the empty default when the
\* file cannot be read or parsed
load_system_config ==
    IF configFile = Unreadable
    THEN [systems |-> <<>>, ssh |-> DEFAULT_SSH_CONFIG]
    ELSE configFile

\* config.get("systems", {})
SystemsOf(config) == Get(config, "systems", <<>>)

\* the index of the first system whose "sid" FIELD equals sid ignoring case,
\* 0 when there is none (the loop of get_system_config)
FirstSidFieldMatch(systems, sid) ==
    LET hits == {i \in DOMAIN systems :
                    Upper(Get(systems[i].cfg, "sid", <<>>)) = Upper(sid)}
    IN IF hits = {} THEN 0 ELSE CHOOSE i \in hits : \A j \in hits : i <= j

\* (mutant) an unknown SID answered with an empty record instead of an error
get_system_config_or_empty(sid) ==
    LET systems == SystemsOf(load_system_config)
        i == FirstSidFieldMatch(systems, sid)
    IN IF i # 0 THEN Return(systems[i].cfg) ELSE Return(EmptyDict)

get_system_config(sid) ==
    LET systems == SystemsOf(load_system_config)
        i == FirstSidFieldMatch(systems, sid)
    IN IF i # 0
       THEN Return(systems[i].cfg)
       ELSE Raise("ValueError",
                  Fmt("System with SID {0} not found in configuration", <<SidArg(sid)>>))

\* sid_map = {s.upper(): s for s in systems}: a later key overwrites an
\* earlier one with the same upper-cased form, so the LAST index wins
SidMapIndex(systems, sid) ==
    LET hits == {i \in DOMAIN systems : Upper(systems[i].key) = Upper(sid)}
    IN IF hits = {} THEN 0 ELSE CHOOSE i \in hits : \A j \in hits : i >= j

\* (mutant) a missing component reported with the unknown-SID message
ComponentNotFoundAsSid(component, actual_sid) ==
    Raise("ValueError",
          Fmt("System with SID '{0}' not found in configuration", <<SidArg(actual_sid)>>))

\* raise ValueError(f"Component '{component}' not found for system '{actual_sid}'")
ComponentNotFound(component, actual_sid) ==
    Raise("ValueError",
          Fmt("Component '{0}' not found for system '{1}'",
              <<StrArg(component), SidArg(actual_sid)>>))

get_system_info(sid, component) ==
    LET config == load_system_config
        systems == SystemsOf(config)
        i == SidMapIndex(systems, sid)
        actual_sid == systems[i].key
        system_config == systems[i].cfg
        components == Get(system_config, "components", EmptyDict)
        component_config == components[component]
        global_ssh_config == Get(config, "ssh", DEFAULT_SSH_CONFIG)
        system_ssh_config == Get(system_config, "ssh", EmptyDict)
        component_ssh_config == Get(component_config, "ssh", EmptyDict)
        ssh_config == Merge(Merge(global_ssh_config, system_ssh_config),
                            component_ssh_config)
        system_sap_users == Get(system_config, "sap_users", EmptyDict)
        component_sap_users == Get(component_config, "sap_users", EmptyDict)
        sap_users == Merge(system_sap_users, component_sap_users)
    IN IF i = 0
       THEN Raise("ValueError",
                  Fmt("System with SID '{0}' not found in configuration", <<SidArg(sid)>>))
       ELSE IF component \notin DOMAIN components
       THEN ComponentNotFound(component, actual_sid)
       ELSE IF "hostname" \notin DOMAIN component_config
       THEN Raise("KeyError", Fmt("'hostname'", <<>>))
       ELSE IF "instance_number" \notin DOMAIN component_config
       THEN Raise("KeyError", Fmt("'instance_number'", <<>>))
       ELSE Return([sid |-> actual_sid,
                    hostname |-> component_config.hostname,
                    instance_number |-> component_config.instance_number,
                    ssh |-> ssh_config,
                    sap_users |-> sap_users])


(***************************************************************************)
(* Text decoding: bytes.decode('utf-8'), strict                            *)
(***************************************************************************)
Text(t) == [text |-> t]

IntArg(n) == [int |-> n]

IsContinuation(b) == b >= 128 /\ b <= 191

IsLead2(b) == b >= 194 /\ b <= 223

\* every byte is an ASCII byte, the lead of a two-byte form followed by a
\* continuation byte, or the continuation byte after such a lead.  The lead
\* bytes of the three- and four-byte forms (224..244) are outside the byte
\* pools used here; 128..193 as a lead and 245..255 are never valid.
Utf8Valid(b) ==
    \A i \in DOMAIN b :
        \/ b[i] < 128
        \/ IsLead2(b[i]) /\ i < Len(b) /\ IsContinuation(b[i + 1])
        \/ IsContinuation(b[i]) /\ i > 1 /\ IsLead2(b[i - 1])

\* the code points of a valid byte string: one per ASCII byte and one per
\* two-byte form
Utf8Chars(b) ==
    LET at(i) == IF IsContinuation(b[i]) THEN -1
                 ELSE IF b[i] < 128 THEN b[i]
                 ELSE (b[i] - 192) * 64 + (b[i + 1] - 128)
        IsChar(x) == x >= 0
    IN SelectSeq([i \in DOMAIN b |-> at(i)], IsChar)

Utf8Decode(b) ==
    IF Utf8Valid(b)
    THEN Return(Utf8Chars(b))
    ELSE Raise("UnicodeDecodeError",
               Fmt("'utf-8' codec can't decode bytes: {0}", <<[bytes |-> b]>>))

(***************************************************************************)
(* Command executor (tools/command_executor.py)                            *)
(*                                                                         *)
(* A command is a sequence of words; f"sudo {command}" prepends a word.    *)
(* env is what the outside world does during the call:                     *)
(*   fault      "none", or the point that fails: "spawn" (creating the     *)
(*              subprocess), "timeout" (the subprocess outlives the        *)
(*              timeout), "pkey" (loading the private key), "connect",     *)
(*              "exec" (exec_command / reading the channel raises,         *)
(*              a channel timeout included)                                *)
(*   key_exists os.path.exists(key_file)                                   *)
(*   rc,out,err exit status and captured bytes of a command that completes *)
(* A fault that is not on the path taken does not happen.                  *)
(* An optional argument (timeout=None) is a set of at most one element.    *)
(***************************************************************************)
EnvMsg(what) == Fmt(what, <<>>)

\* d[k] is present and a non-empty string
HasText(d, k) == k \in DOMAIN d /\ d[k] # ""

\* f"sudo {command}" if use_sudo else command
WithSudo(command, use_sudo) == IF use_sudo THEN <<"sudo">> \o command ELSE command

\* asyncio.wait_for(..., timeout): with timeout <= 0 the wait expires before
\* the subprocess can be collected; with timeout=None it never expires
LocalTimesOut(timeout, env) ==
    /\ timeout # {}
    /\ \/ env.fault = "timeout"
       \/ \E t \in timeout : t <= 0

_execute_local(command, use_sudo, timeout, env) ==
    LET full_command == WithSudo(command, use_sudo)
        \* the subprocess: what it ran, whether it is still running when the
        \* call returns, and what communicate() collected from it
        process(state) ==
            IF state = "exited"
            THEN [command |-> full_command, timeout |-> timeout, state |-> state,
                  returncode |-> env.rc, out |-> env.out, err |-> env.err]
            ELSE [command |-> full_command, timeout |-> timeout, state |-> state]
        out == Utf8Decode(env.out)
        err == Utf8Decode(env.err)
        failed(e, ps) == [return_code |-> -1, stdout |-> Text(<<>>), stderr |-> e,
                          procs |-> ps, sessions |-> <<>>]
    IN IF env.fault = "spawn"
       THEN failed(EnvMsg("create_subprocess_shell failed"), <<>>)
       ELSE IF LocalTimesOut(timeout, env)
       THEN failed(Fmt("Command timeout after {0} seconds",
                       <<IntArg(CHOOSE t \in timeout : TRUE)>>),
                   <<process("running")>>)
       ELSE IF out.raised THEN failed(out.msg, <<process("exited")>>)
       ELSE IF err.raised THEN failed(err.msg, <<process("exited")>>)
       ELSE [return_code |-> env.rc, stdout |-> Text(out.value),
             stderr |-> Text(err.value),
             procs |-> <<process("exited")>>, sessions |-> <<>>]

\* (mutant) close() only after a connect() that succeeded
CloseClientIfConnected(c) == IF c.connected THEN [c EXCEPT !.closed = TRUE] ELSE c

\* client.close()
CloseClient(c) == [c EXCEPT !.closed = TRUE]

_execute_remote(host, command, use_sudo, timeout, ssh_config, env) ==
    LET username == Get(ssh_config, "username", "root")
        port == Get(ssh_config, "port", 22)
        has_key_file == HasText(ssh_config, "key_file")
        has_password == HasText(ssh_config, "password")
        use_key_auth == Get(ssh_config, "use_key_auth", has_key_file)
        key_requires_passphrase == Get(ssh_config, "key_requires_passphrase", FALSE)
        by_key == use_key_auth /\ has_key_file /\ env.key_exists
        auth == IF by_key
                THEN IF key_requires_passphrase /\ has_password
                     THEN "pkey" ELSE "key_filename"
                ELSE "password"
        full_command == WithSudo(command, use_sudo)
        \* the paramiko.SSHClient of this call, before the finally block
        client(connect_called, connected, commands) ==
            [host |-> host, username |-> username, port |-> port, auth |-> auth,
             timeout |-> timeout,
             connect_called |-> connect_called, connected |-> connected,
             commands |-> commands, closed |-> FALSE]
        \* the same, for a command whose exit status and output were received
        finished ==
            [host |-> host, username |-> username, port |-> port, auth |-> auth,
             timeout |-> timeout,
             connect_called |-> TRUE, connected |-> TRUE,
             commands |-> <<full_command>>, closed |-> FALSE,
             exit_status |-> env.rc, out |-> env.out, err |-> env.err]
        out == Utf8Decode(env.out)
        err == Utf8Decode(env.err)
        \* `finally: if client: client.close()` runs on every way out
        failed(e, c) == [return_code |-> -1, stdout |-> Text(<<>>), stderr |-> e,
                         procs |-> <<>>, sessions |-> <<CloseClient(c)>>]
    IN IF auth = "pkey" /\ env.fault = "pkey"
       THEN failed(EnvMsg("RSAKey.from_private_key_file failed"),
                   client(FALSE, FALSE, <<>>))
       ELSE IF env.fault = "connect"
       THEN failed(EnvMsg("connect failed"), client(TRUE, FALSE, <<>>))
       ELSE IF env.fault = "exec"
       THEN failed(EnvMsg("exec_command failed"), client(TRUE, TRUE, <<full_command>>))
       ELSE IF out.raised THEN failed(out.msg, finished)
       ELSE IF err.raised THEN failed(err.msg, finished)
       ELSE [return_code |-> env.rc, stdout |-> Text(out.value),
             stderr |-> Text(err.value), procs |-> <<>>,
             sessions |-> <<CloseClient(finished)>>]

\* (mutant) the test without `or not host`
IsLocalTargetNamesOnly(host) == host \in {"localhost", "127.0.0.1"}

\* host in ['localhost', '127.0.0.1'] or not host
IsLocalTarget(host) == host \in {"localhost", "127.0.0.1"} \/ host = ""

\* (mutant) a second attempt after an attempt that ended with return code -1
execute_command_with_retry(host, command, use_sudo, timeout, ssh_config, env) ==
    LET effective_ssh_config ==
            IF DOMAIN ssh_config = {} THEN DEFAULT_SSH_CONFIG ELSE ssh_config
        attempt == IF IsLocalTarget(host)
                   THEN _execute_local(command, use_sudo, timeout, env)
                   ELSE _execute_remote(host, command, use_sudo, timeout,
                                        effective_ssh_config, env)
        returned(first, r) ==
            [result |-> [status |-> IF r.return_code = 0 THEN "success" ELSE "error",
                         return_code |-> r.return_code,
                         stdout |-> r.stdout, stderr |-> r.stderr],
             raised |-> FALSE,
             procs |-> IF first.return_code = -1 THEN first.procs \o r.procs ELSE r.procs,
             sessions |-> IF first.return_code = -1
                          THEN first.sessions \o r.sessions ELSE r.sessions]
    IN returned(attempt, attempt)

\* the dict execute_command returns, with the subprocesses and SSH clients
\* the call created
execute_command(host, command, use_sudo, timeout, ssh_config, env) ==
    LET effective_ssh_config ==
            IF DOMAIN ssh_config = {} THEN DEFAULT_SSH_CONFIG ELSE ssh_config
        \* the dict built from (return_code, stdout, stderr)
        returned(r) ==
            [result |-> [status |-> IF r.return_code = 0 THEN "success" ELSE "error",
                         return_code |-> r.return_code,
                         stdout |-> r.stdout, stderr |-> r.stderr],
             raised |-> FALSE, procs |-> r.procs, sessions |-> r.sessions]
    IN returned(IF IsLocalTarget(host)
                THEN _execute_local(command, use_sudo, timeout, env)
                ELSE _execute_remote(host, command, use_sudo, timeout,
                                     effective_ssh_config, env))

\* the error dict the two system-level entry points build in their handlers
ErrorResult(e, prefix) ==
    [status |-> "error", error |-> e.msg, return_code |-> -1,
     stdout |-> Text(<<>>), stderr |-> Fmt(prefix, <<MsgArg(e.msg)>>)]

NothingRun(res) == [result |-> res, raised |-> FALSE, procs |-> <<>>, sessions |-> <<>>]

\* (mutant) the handlers without their final `except Exception`
HandledValueErrorOnly(e) ==
    IF e.type = "ValueError"
    THEN NothingRun(ErrorResult(e, "Configuration error: {0}"))
    ELSE [result |-> None, raised |-> TRUE, exc |-> e, procs |-> <<>>, sessions |-> <<>>]

\* except ValueError / except Exception of both system-level entry points
Handled(e) ==
    IF e.type = "ValueError"
    THEN NothingRun(ErrorResult(e, "Configuration error: {0}"))
    ELSE NothingRun(ErrorResult(e, "Execution error: {0}"))

\* config.get("default_timeout", 60)
DefaultTimeout(config) == Get(config, "default_timeout", 60)

execute_command_for_system(sid, component, command, use_sudo, timeout, env) ==
    LET config == load_system_config
        \* timeout or config.get("default_timeout", 60)
        effective_timeout ==
            IF timeout = {} \/ timeout = {0} THEN {DefaultTimeout(config)} ELSE timeout
        run(system_info) ==
            IF system_info.raised
            THEN Handled(system_info)
            ELSE execute_command(system_info.value.hostname, command, use_sudo,
                                 effective_timeout, system_info.value.ssh, env)
    IN run(get_system_info(sid, component))

\* (mutant) no fallback to sidadm
ResolveSapUserTypeNoFallback(sap_users, sap_user_type) ==
    IF sap_user_type \in DOMAIN sap_users THEN {sap_user_type} ELSE {}

\* the user type execute_command_as_sap_user settles on: the requested one
\* if configured, else "sidadm" if that is configured, else none ({})
ResolveSapUserType(sap_users, sap_user_type) ==
    IF DOMAIN sap_users = {} \/ sap_user_type \notin DOMAIN sap_users
    THEN IF sap_user_type # "sidadm" /\ "sidadm" \in DOMAIN sap_users
         THEN {"sidadm"}
         ELSE {}
    ELSE {sap_user_type}

execute_command_as_sap_user(sid, component, command, sap_user_type, timeout, env) ==
    LET config == load_system_config
        \* timeout if timeout is not None else default_timeout
        effective_timeout ==
            IF timeout # {} THEN timeout ELSE {DefaultTimeout(config)}
        run(system_info) ==
            LET sap_users == system_info.value.sap_users
                resolved == ResolveSapUserType(sap_users, sap_user_type)
                user_type == CHOOSE t \in resolved : TRUE
                sap_user == sap_users[user_type]
                sudo_command == <<"sudo", "-u", sap_user.username>> \o command
            IN IF system_info.raised
               THEN Handled(system_info)
               ELSE IF resolved = {}
               THEN Handled(Raise("ValueError",
                                  Fmt("SAP user type {0} not configured for system {1}/{2}",
                                      <<StrArg(sap_user_type), SidArg(sid), StrArg(component)>>)))
               ELSE IF ~HasText(sap_user, "username")
               THEN Handled(Raise("ValueError",
                                  Fmt("Username not configured for {0} on system {1}/{2}",
                                      <<StrArg(user_type), SidArg(sid), StrArg(component)>>)))
               ELSE execute_command(system_info.value.hostname, sudo_command, FALSE,
                                    effective_timeout, system_info.value.ssh, env)
    IN run(get_system_info(sid, component))

(***************************************************************************)
(* Bounds and input pools                                                  *)
(***************************************************************************)
MaxOutLen == 2     \* bytes of captured stdout
MaxErrLen == 1     \* bytes of captured stderr
MaxRc == 1         \* exit statuses are -1 .. MaxRc
MaxTimeout == 30   \* the positive timeout a caller passes

\* SIDs: "D54", "d54", "XXX"
SidD54 == <<68, 53, 52>>
SidLowerD54 == <<100, 53, 52>>
SidXXX == <<88, 88, 88>>

QuerySids == {SidD54, SidLowerD54, SidXXX}

ComponentNames == {"db", "app", "ascs", "ers"}

SapUserTypes == {"sidadm", "dbadm", "root"}

Commands == {<<"df", "-h">>}

Timeouts == {{}, {0}, {MaxTimeout}}

\* "" stands for both falsy targets, None and the empty string
Hosts == {"", "localhost", "127.0.0.1", "::1", "10.0.0.5"}

RECURSIVE SeqsUpTo(_, _)
SeqsUpTo(S, n) ==
    IF n = 0 THEN {<<>>}
    ELSE LET shorter == SeqsUpTo(S, n - 1)
         IN shorter \cup {Append(q, x) : q \in shorter, x \in S}

\* captured bytes: "A", and 195 169 which together encode one character and
\* apart are malformed; 255 is never valid
OutBytes == SeqsUpTo({65, 195, 169}, MaxOutLen)
ErrBytes == SeqsUpTo({69, 255}, MaxErrLen)

ExitCodes == -1 .. MaxRc

Quiet == [fault |-> "none", key_exists |-> TRUE, rc |-> 0, out |-> <<>>, err |-> <<>>]

\* what the outside world may do during one command
Envs ==
    {[Quiet EXCEPT !.rc = rc, !.out = o] : rc \in ExitCodes, o \in OutBytes}
    \cup {[Quiet EXCEPT !.rc = rc, !.err = e] : rc \in ExitCodes, e \in ErrBytes}
    \cup {[Quiet EXCEPT !.fault = f] : f \in {"spawn", "timeout", "pkey", "connect", "exec"}}
    \cup {[Quiet EXCEPT !.key_exists = FALSE]}

\* SSH settings as they appear at a layer of the configuration
SshPassword == [username |-> "d54adm", password |-> "secret"]
SshKey == [username |-> "d54adm", key_file |-> "/keys/id_rsa"]
SshKeyPassphrase ==
    [username |-> "d54adm", key_file |-> "/keys/id_rsa",
     key_requires_passphrase |-> TRUE, password |-> "phrase"]

SshShapes == {EmptyDict, SshPassword, SshKey, SshKeyPassphrase}

\* SAP OS users as they appear at a layer of the configuration
SidadmEntries == {[username |-> "d54adm", password |-> "pw1"], [password |-> "pw1"]}
DbadmEntries == {[username |-> "hdbadm", password |-> "pw2"]}

SapUserShapes ==
    {EmptyDict}
    \cup {[sidadm |-> a] : a \in SidadmEntries}
    \cup {[dbadm |-> b] : b \in DbadmEntries}
    \cup {[sidadm |-> a, dbadm |-> b] : a \in SidadmEntries, b \in DbadmEntries}

\* components: a database host, an application server on the gateway's own
\* host, and a component whose instance number was left out
CompDb == [hostname |-> "10.0.0.5", instance_number |-> "00"]
CompApp == [hostname |-> "localhost", instance_number |-> "01"]
CompAscs == [hostname |-> "10.0.0.7"]

\* d with key k set to v when present = TRUE
With(d, k, v, present) == IF present THEN Merge(d, [x \in {k} |-> v]) ELSE d

ExecSystem(users) ==
    [description |-> "development", type |-> "SAP_HANA",
     components |-> [db |-> CompDb, app |-> CompApp, ascs |-> CompAscs],
     sap_users |-> users]

ExecConfig(users, ssh, has_default_timeout) ==
    With(With([systems |-> <<[key |-> SidD54, cfg |-> ExecSystem(users)]>>],
              "ssh", ssh, DOMAIN ssh # {}),
         "default_timeout", MaxTimeout + 1, has_default_timeout)

ExecConfigs ==
    {ExecConfig(u, SshPassword, FALSE) : u \in SapUserShapes}
    \cup {ExecConfig([sidadm |-> [username |-> "d54adm", password |-> "pw1"]], s, TRUE) :
            s \in SshShapes}
    \cup {Unreadable}

(***************************************************************************)
(* The executor's entry points as operations                               *)
(***************************************************************************)
Idle == [op |-> "idle"]

\* an entry point ran: record the call, what it returned and what it created
Finish(c, outcome) ==
    /\ call' = c
    /\ ret' = IF outcome.raised THEN outcome.exc ELSE Return(outcome.result)
    /\ procs' = outcome.procs
    /\ sessions' = outcome.sessions
    /\ UNCHANGED <<configFile, hosts, azure, connections>>

ExecuteCommand ==
    /\ call = Idle
    /\ \E host \in Hosts, command \in Commands, use_sudo \in BOOLEAN,
          timeout \in Timeouts \ {{}}, ssh_config \in SshShapes, env \in Envs :
          Finish([op |-> "execute_command", host |-> host, command |-> command,
                  use_sudo |-> use_sudo, timeout |-> timeout, ssh_config |-> ssh_config],
                 execute_command(host, command, use_sudo, timeout, ssh_config, env))

ExecuteCommandForSystem ==
    /\ call = Idle
    /\ \E sid \in QuerySids, component \in ComponentNames, command \in Commands,
          use_sudo \in BOOLEAN, timeout \in Timeouts, env \in Envs :
          Finish([op |-> "execute_command_for_system", sid |-> sid,
                  component |-> component, command |-> command,
                  use_sudo |-> use_sudo, timeout |-> timeout],
                 execute_command_for_system(sid, component, command, use_sudo,
                                            timeout, env))

ExecuteCommandAsSapUser ==
    /\ call = Idle
    /\ \E sid \in QuerySids, component \in ComponentNames, command \in Commands,
          sap_user_type \in SapUserTypes, timeout \in Timeouts, env \in Envs :
          Finish([op |-> "execute_command_as_sap_user", sid |-> sid,
                  component |-> component, command |-> command,
                  sap_user_type |-> sap_user_type, timeout |-> timeout],
                 execute_command_as_sap_user(sid, component, command, sap_user_type,
                                             timeout, env))

\* the caller has consumed the result; the gateway waits for the next request
NextRequest ==
    /\ call # Idle
    /\ call' = Idle
    /\ ret' = None
    /\ procs' = <<>>
    /\ sessions' = <<>>
    /\ UNCHANGED <<configFile, hosts, azure, connections>>

Init ==
    /\ configFile \in ExecConfigs
    /\ call = Idle
    /\ ret = None
    /\ procs = <<>>
    /\ sessions = <<>>
    /\ hosts = None
    /\ azure = None
    /\ connections = None

Next ==
    \/ ExecuteCommand
    \/ ExecuteCommandForSystem
    \/ ExecuteCommandAsSapUser
    \/ NextRequest

Spec == Init /\ [][Next]_vars

(***************************************************************************)
(* Properties of the executor (checked under Spec)                         *)
(***************************************************************************)
Returned == call # Idle

\* the subprocess or the remote command of the call ran to completion; these
\* are its exit status and captured bytes
CompletedRuns ==
    {[rc |-> procs[i].returncode, out |-> procs[i].out, err |-> procs[i].err] :
        i \in {j \in DOMAIN procs : procs[j].state = "exited"}}
    \cup
    {[rc |-> sessions[i].exit_status, out |-> sessions[i].out, err |-> sessions[i].err] :
        i \in {j \in DOMAIN sessions : "exit_status" \in DOMAIN sessions[j]}}

CommandCompleted == CompletedRuns # {}

IsExecutorCall ==
    call.op \in {"execute_command", "execute_command_for_system",
                 "execute_command_as_sap_user"}

\* C1: no entry point of the executor raises; each returns a CommandResult
\* (status, return_code, stdout, stderr), and whenever the command did not
\* run to completion (configuration error, missing SAP user, spawn failure,
\* key or connect failure, timeout, remote exec exception) that result has
\* status "error" and return_code -1.
C1_NeverRaises ==
    (Returned /\ IsExecutorCall) =>
        /\ ~ret.raised
        /\ {"status", "return_code", "stdout", "stderr"} \subseteq DOMAIN ret.value
        /\ ~CommandCompleted =>
              /\ ret.value.status = "error"
              /\ ret.value.return_code = -1

\* a component whose record lacks instance_number makes get_system_info
\* raise KeyError inside execute_command_for_system
C1_Witness ==
    /\ call.op = "execute_command_for_system"
    /\ call.component = "ascs"
    /\ call.sid = SidLowerD54
    /\ ~ret.raised
    /\ ret.value.status = "error"
    /\ ret.value.return_code = -1
    /\ ret.value.stderr = Fmt("Execution error: {0}", <<MsgArg(Fmt("'instance_number'", <<>>))>>)

\* str.encode('utf-8') of one- and two-byte code points
RECURSIVE Utf8Encode(_)
Utf8Encode(t) ==
    IF t = <<>> THEN <<>>
    ELSE (IF Head(t) < 128
          THEN <<Head(t)>>
          ELSE <<192 + (Head(t) \div 64), 128 + (Head(t) % 64)>>)
         \o Utf8Encode(Tail(t))

\* the field is text whose encoding is exactly these bytes
CarriesBytes(field, bytes) ==
    "text" \in DOMAIN field /\ Utf8Encode(field.text) = bytes

\* C2: when the command of an execute call runs to completion, the result's
\* status is "success" exactly when the command's return code is 0, and
\* stdout and stderr are the captured output, decoded.
C2_StatusAndPassThrough ==
    (Returned /\ call.op = "execute_command") =>
        \A run \in CompletedRuns :
            /\ ret.value.status = "success" <=> run.rc = 0
            /\ CarriesBytes(ret.value.stdout, run.out)
            /\ CarriesBytes(ret.value.stderr, run.err)

\* the settings execute hands to the SSH path: those supplied, or the
\* default when none are
SuppliedSsh(ssh_config) ==
    IF DOMAIN ssh_config = {} THEN [username |-> "root", port |-> 22] ELSE ssh_config

\* C3: execute with an empty target or one of the loopback names the code
\* knows ("localhost", "127.0.0.1") creates no SSH client and runs the
\* command as a local subprocess; with any other target it creates exactly
\* one SSH client, for that target and with the supplied user and port, and
\* starts no local subprocess.
C3_LocalOrRemote ==
    (Returned /\ call.op = "execute_command") =>
        IF call.host = "" \/ call.host = "localhost" \/ call.host = "127.0.0.1"
        THEN /\ sessions = <<>>
             /\ Len(procs) <= 1
             /\ CommandCompleted => Len(procs) = 1
        ELSE /\ procs = <<>>
             /\ Len(sessions) = 1
             /\ sessions[1].host = call.host
             /\ sessions[1].username = Get(SuppliedSsh(call.ssh_config), "username", "root")
             /\ sessions[1].port = Get(SuppliedSsh(call.ssh_config), "port", 22)

C3_Witness ==
    /\ call.op = "execute_command"
    /\ call.host = ""
    /\ Len(procs) = 1
    /\ procs[1].state = "exited"
    /\ sessions = <<>>
    /\ ret.value.status = "success"

IsConfigurationError(r) ==
    /\ "fmt" \in DOMAIN r.stderr
    /\ r.stderr.fmt = "Configuration error: {0}"

\* the commands the call handed to a subprocess or an SSH channel
CommandsRun ==
    {procs[i].command : i \in DOMAIN procs}
    \cup UNION {{sessions[i].commands[j] : j \in DOMAIN sessions[i].commands} :
                    i \in DOMAIN sessions}

\* the sap_users map get_system_info resolves for the call's system
ResolvedSapUsers == get_system_info(call.sid, call.component).value.sap_users

\* the call asks for a user type that is not configured while sidadm is,
\* with a username
FallbackCase ==
    /\ Returned
    /\ call.op = "execute_command_as_sap_user"
    /\ ~get_system_info(call.sid, call.component).raised
    /\ call.sap_user_type \notin DOMAIN ResolvedSapUsers
    /\ "sidadm" \in DOMAIN ResolvedSapUsers
    /\ HasText(ResolvedSapUsers.sidadm, "username")

\* C10: executeAsSapUser for a user type absent from the resolved sap_users
\* map, with sidadm present (and carrying a username), does not return a
\* configuration error: every command it runs is
\* "sudo -u <sidadm's username> <command>", and a command that ran to
\* completion was that one.
C10_FallsBackToSidadm ==
    FallbackCase =>
        /\ ~ret.raised
        /\ ~IsConfigurationError(ret.value)
        /\ CommandsRun \subseteq
              {<<"sudo", "-u", ResolvedSapUsers.sidadm.username>> \o call.command}
        /\ CommandCompleted => CommandsRun # {}

C10_Witness ==
    /\ FallbackCase
    /\ call.sap_user_type = "dbadm"
    /\ call.component = "db"
    /\ Len(sessions) = 1
    /\ sessions[1].commands = <<(<<"sudo", "-u", "d54adm", "df", "-h">>)>>
    /\ ret.value.status = "success"

(***************************************************************************)
(* The configuration store on its own (SpecConfig)                         *)
(*                                                                         *)
(* The documents explored are three families around one system:            *)
(*  - keys, "sid" fields and component sets of the systems map;            *)
(*  - SSH settings at the global, system and component layers;             *)
(*  - SAP users at the global, system and component layers.                *)
(* SIDs identify systems ignoring case, so no document has two keys that   *)
(* differ only in case.                                                    *)
(***************************************************************************)
\* "Qa1", "QA1", "qa1"
SidMixedQa1 == <<81, 97, 49>>
SidUpperQA1 == <<81, 65, 49>>
SidLowerQa1 == <<113, 97, 49>>

StoreQuerySids == {SidD54, SidLowerD54, SidMixedQa1, SidUpperQA1, SidLowerQa1, SidXXX}

StoreComponents == {"db", "app"}

CompDbOnHost == [hostname |-> "10.0.0.5", instance_number |-> "00"]
CompAppOnHost == [hostname |-> "10.0.0.6", instance_number |-> "01"]

ComponentSets ==
    {EmptyDict, [db |-> CompDbOnHost], [app |-> CompAppOnHost],
     [db |-> CompDbOnHost, app |-> CompAppOnHost]}

\* a system record: with or without a "components" map and a "sid" field
SystemRecords(key) ==
    {With(With([description |-> "system", type |-> "SAP_HANA"],
               "components", comps, has_components),
          "sid", sid_field, has_sid) :
        comps \in ComponentSets, has_components \in BOOLEAN,
        sid_field \in {key, Upper(key)}, has_sid \in BOOLEAN}

KeyConfigs ==
    LET other == [description |-> "other", type |-> "SAP_HANA",
                  components |-> [db |-> CompDbOnHost]]
        documents(k) ==
            UNION {{[systems |-> <<[key |-> k, cfg |-> r]>>],
                    [systems |-> <<[key |-> SidXXX, cfg |-> other], [key |-> k, cfg |-> r]>>,
                     ssh |-> SshPassword]} : r \in SystemRecords(k)}
    IN UNION {documents(k) : k \in {SidD54, SidLowerD54, SidMixedQa1}}

\* the values a layer gives to a key are tagged with the layer
LayerUser(layer) == [global |-> "g_user", system |-> "s_user", component |-> "c_user"][layer]
LayerPort(layer) == [global |-> 2200, system |-> 2201, component |-> 2202][layer]

SshLayers(layer) ==
    {EmptyDict, [username |-> LayerUser(layer)], [port |-> LayerPort(layer)],
     [username |-> LayerUser(layer), port |-> LayerPort(layer)]}

LayerSapUser(layer, type) == [username |-> LayerUser(layer), password |-> type]

SapUserLayers(layer) ==
    {EmptyDict, [sidadm |-> LayerSapUser(layer, "sidadm")],
     [dbadm |-> LayerSapUser(layer, "dbadm")],
     [sidadm |-> LayerSapUser(layer, "sidadm"), dbadm |-> LayerSapUser(layer, "dbadm")]}

\* one system with a db component; a layer that is None is left out
\* of the document
LayeredConfig(key, g_ssh, s_ssh, c_ssh, g_users, s_users, c_users) ==
    LET comp == With(With(CompDbOnHost, "ssh", c_ssh, c_ssh # None),
                     "sap_users", c_users, c_users # None)
        sys == With(With([description |-> "layered", components |-> [db |-> comp]],
                         "ssh", s_ssh, s_ssh # None),
                    "sap_users", s_users, s_users # None)
    IN With(With([systems |-> <<[key |-> key, cfg |-> sys]>>],
                 "ssh", g_ssh, g_ssh # None),
            "sap_users", g_users, g_users # None)

SshConfigs ==
    {LayeredConfig(SidD54, g, s, c, None, None, None) :
        g \in SshLayers("global") \cup {None},
        s \in SshLayers("system") \cup {None},
        c \in SshLayers("component") \cup {None}}

SapUserConfigs ==
    {LayeredConfig(SidD54, SshPassword, None, None, g, s, c) :
        g \in SapUserLayers("global") \cup {None},
        s \in SapUserLayers("system") \cup {None},
        c \in SapUserLayers("component") \cup {None}}

StoreConfigs == KeyConfigs \cup SshConfigs \cup SapUserConfigs \cup {Unreadable}

GetSystemConfig ==
    /\ call = Idle
    /\ \E sid \in StoreQuerySids :
          /\ call' = [op |-> "get_system_config", sid |-> sid]
          /\ ret' = get_system_config(sid)
    /\ UNCHANGED <<configFile, procs, sessions, hosts, azure, connections>>

GetSystemInfo ==
    /\ call = Idle
    /\ \E sid \in StoreQuerySids, component \in StoreComponents :
          /\ call' = [op |-> "get_system_info", sid |-> sid, component |-> component]
          /\ ret' = get_system_info(sid, component)
    /\ UNCHANGED <<configFile, procs, sessions, hosts, azure, connections>>

InitConfig ==
    /\ configFile \in StoreConfigs
    /\ call = Idle
    /\ ret = None
    /\ procs = <<>>
    /\ sessions = <<>>
    /\ hosts = None
    /\ azure = None
    /\ connections = None

NextConfig ==
    \/ GetSystemConfig
    \/ GetSystemInfo
    \/ NextRequest

SpecConfig == InitConfig /\ [][NextConfig]_vars

(***************************************************************************)
(* Properties of the configuration store (checked under SpecConfig)        *)
(***************************************************************************)
\* the systems map of the document on disk
StoredSystems == IF configFile = Unreadable THEN <<>> ELSE configFile.systems

\* the stored systems whose key equals sid ignoring case
StoredUnder(sid) == {i \in DOMAIN StoredSystems : Upper(StoredSystems[i].key) = Upper(sid)}

\* the "not found" failure of an unknown SID, from either lookup
IsSidNotFound(r) ==
    /\ r.raised
    /\ r.msg.fmt \in {"System with SID {0} not found in configuration",
                     "System with SID '{0}' not found in configuration"}

\* C4: a SID stored as a key of the systems map is found by both lookups
\* whatever the case of the query: get_system_config returns that system's
\* record, and get_system_info resolves that system (it never fails with
\* the unknown-SID error).
C4_CaseInsensitiveLookup ==
    (Returned /\ call.op \in {"get_system_config", "get_system_info"}) =>
        \A i \in StoredUnder(call.sid) :
            /\ ~IsSidNotFound(ret)
            /\ call.op = "get_system_config" => ret = Return(StoredSystems[i].cfg)
            /\ (call.op = "get_system_info" /\ ~ret.raised) =>
                  ret.value.sid = StoredSystems[i].key

\* the three layers the resolved component of a get_system_info call is
\* built from
ResolvedSystem ==
    StoredSystems[CHOOSE i \in DOMAIN StoredSystems :
                     StoredSystems[i].key = ret.value.sid].cfg

ResolvedComponent == ResolvedSystem.components[call.component]

Layer(record, name) == IF name \in DOMAIN record THEN record[name] ELSE EmptyDict

GlobalSsh ==
    IF "ssh" \in DOMAIN configFile THEN configFile.ssh ELSE [username |-> "root", port |-> 22]

InfoReturned == Returned /\ call.op = "get_system_info" /\ ~ret.raised

\* the value the most specific of the layers gives to key k, as a set: empty
\* when no layer defines k
MostSpecific(layers, k) ==
    LET defining == {n \in DOMAIN layers : k \in DOMAIN layers[n]}
    IN IF defining = {} THEN {}
       ELSE {layers[CHOOSE n \in defining : \A m \in defining : n >= m][k]}

\* what the resolved map gives to key k, as a set
Resolved(map, k) == IF k \in DOMAIN map THEN {map[k]} ELSE {}

\* C5: every SSH-settings key resolves to the component's value if the
\* component defines it, else the system's, else the global one (the
\* built-in default when the document has no global settings); a key no
\* layer defines is absent.
C5_SshLayering ==
    InfoReturned =>
        \A k \in {"username", "port", "password", "key_file"} :
            Resolved(ret.value.ssh, k) =
                MostSpecific(<<GlobalSsh, Layer(ResolvedSystem, "ssh"),
                               Layer(ResolvedComponent, "ssh")>>, k)

\* the system overrides the user, the component nothing: the port comes
\* from the global layer and the user from the system layer
C5_Witness ==
    /\ InfoReturned
    /\ GlobalSsh = [username |-> "g_user", port |-> 2200]
    /\ Layer(ResolvedSystem, "ssh") = [username |-> "s_user"]
    /\ Layer(ResolvedComponent, "ssh") = EmptyDict
    /\ ret.value.ssh = [username |-> "s_user", port |-> 2200]

\* C6 (as claimed): every user type defined at any of the three layers
\* (global, system, component) resolves to the component's entry, else the
\* system's, else the global one.
C6_ThreeLayerSapUsers ==
    InfoReturned =>
        \A t \in {"sidadm", "dbadm"} :
            Resolved(ret.value.sap_users, t) =
                MostSpecific(<<Layer(configFile, "sap_users"),
                               Layer(ResolvedSystem, "sap_users"),
                               Layer(ResolvedComponent, "sap_users")>>, t)

\* C6 (amended): SAP users are merged across two layers, system and
\* component: a user type resolves to the component's entry, else the
\* system's; a type defined only in a global sap_users map is not in the
\* result.
C6_TwoLayerSapUsers ==
    InfoReturned =>
        \A t \in {"sidadm", "dbadm"} :
            Resolved(ret.value.sap_users, t) =
                MostSpecific(<<Layer(ResolvedSystem, "sap_users"),
                               Layer(ResolvedComponent, "sap_users")>>, t)

\* the component overrides sidadm, dbadm is kept from the system, and the
\* global map is ignored
C6_Witness ==
    /\ InfoReturned
    /\ Layer(configFile, "sap_users") = [sidadm |-> LayerSapUser("global", "sidadm"),
                                         dbadm |-> LayerSapUser("global", "dbadm")]
    /\ Layer(ResolvedSystem, "sap_users") = [sidadm |-> LayerSapUser("system", "sidadm"),
                                             dbadm |-> LayerSapUser("system", "dbadm")]
    /\ Layer(ResolvedComponent, "sap_users") = [sidadm |-> LayerSapUser("component", "sidadm")]
    /\ ret.value.sap_users = [sidadm |-> LayerSapUser("component", "sidadm"),
                              dbadm |-> LayerSapUser("system", "dbadm")]

\* the call names a stored SID and a component that system does not declare
MissingComponentCase ==
    /\ Returned
    /\ call.op = "get_system_info"
    /\ \E i \in StoredUnder(call.sid) :
          call.component \notin DOMAIN Layer(StoredSystems[i].cfg, "components")

\* C7: get_system_info for a known SID and a component it does not declare
\* fails; the error names the component, and its message is not the one
\* any unknown SID gets.
C7_MissingComponentFailsDistinctly ==
    MissingComponentCase =>
        /\ ret.raised
        /\ \E j \in DOMAIN ret.msg.args : ret.msg.args[j] = StrArg(call.component)
        /\ \A q \in StoreQuerySids :
              StoredUnder(q) = {} =>
                  get_system_info(q, call.component).msg.fmt # ret.msg.fmt

C7_Witness ==
    /\ MissingComponentCase
    /\ call.sid = SidLowerD54
    /\ call.component = "app"
    /\ \E i \in StoredUnder(call.sid) :
          /\ StoredSystems[i].key = SidD54
          /\ DOMAIN Layer(StoredSystems[i].cfg, "components") = {"db"}
    /\ ret = Raise("ValueError",
                   Fmt("Component '{0}' not found for system '{1}'",
                       <<StrArg("app"), SidArg(SidD54)>>))

(***************************************************************************)
(* Text helpers (str.strip, str.split, str.rstrip, str.isdigit, int, in)   *)
(***************************************************************************)
\* the characters str.strip() and str.split() treat as whitespace
IsSpace(c) == c \in (9 .. 13) \cup (28 .. 32) \cup {133, 160}

\* t.strip()
Strip(t) ==
    LET keep == {i \in DOMAIN t : ~IsSpace(t[i])}
        first == CHOOSE i \in keep : \A j \in 1 .. (i - 1) : IsSpace(t[j])
        last == CHOOSE i \in keep : \A j \in (i + 1) .. Len(t) : IsSpace(t[j])
    IN IF keep = {} THEN <<>> ELSE SubSeq(t, first, last)

\* t.split(sep), sep a single character: empty pieces are kept
RECURSIVE SplitOn(_, _)
SplitOn(t, sep) ==
    LET at == {i \in DOMAIN t : t[i] = sep}
        first == CHOOSE i \in at : \A j \in at : i <= j
    IN IF at = {} THEN <<t>>
       ELSE <<SubSeq(t, 1, first - 1)>> \o SplitOn(SubSeq(t, first + 1, Len(t)), sep)

\* t.split(): the maximal runs of non-whitespace
RECURSIVE SplitWords(_)
SplitWords(t) ==
    LET starts == {i \in DOMAIN t : ~IsSpace(t[i])}
        b == CHOOSE i \in starts : \A j \in starts : i <= j
        stops == {i \in DOMAIN t : i > b /\ IsSpace(t[i])}
        e == IF stops = {} THEN Len(t) + 1 ELSE CHOOSE i \in stops : \A j \in stops : i <= j
    IN IF starts = {} THEN <<>>
       ELSE <<SubSeq(t, b, e - 1)>> \o SplitWords(SubSeq(t, e, Len(t)))

\* t.rstrip(ch)
RStripChar(t, ch) ==
    LET keep == {i \in DOMAIN t : t[i] # ch}
        last == CHOOSE i \in keep : \A j \in (i + 1) .. Len(t) : t[j] = ch
    IN IF keep = {} THEN <<>> ELSE SubSeq(t, 1, last)

\* t.isdigit(), for the decimal digits 0-9
IsDigits(t) == t # <<>> /\ \A i \in DOMAIN t : t[i] >= 48 /\ t[i] <= 57

\* int(t) of a string of decimal digits
RECURSIVE ToInt(_)
ToInt(t) ==
    IF t = <<>> THEN 0
    ELSE 10 * ToInt(SubSeq(t, 1, Len(t) - 1)) + (t[Len(t)] - 48)

\* needle in hay
Contains(hay, needle) ==
    \E i \in 0 .. (Len(hay) - Len(needle)) : SubSeq(hay, i + 1, i + Len(needle)) = needle

(***************************************************************************)
(* The df parser (tools/disk_check.py)                                     *)
(***************************************************************************)
\* (mutant) critical only above 90
UsageStatusAbove90(use_percent_value) ==
    IF use_percent_value > 90 THEN "critical"
    ELSE IF use_percent_value >= 80 THEN "warning"
    ELSE "normal"

\* the status bucket of a usage percentage
UsageStatus(use_percent_value) ==
    IF use_percent_value >= 90 THEN "critical"
    ELSE IF use_percent_value >= 80 THEN "warning"
    ELSE "normal"

\* the row of one data line: <<row>>, or <<>> for a line that is skipped
ParseDfLine(line) ==
    LET parts == SplitWords(line)
        six == Len(parts) >= 6
        use_percent == IF six THEN parts[5] ELSE parts[4]
        digits == RStripChar(use_percent, 37)
        use_percent_value == IF IsDigits(digits) THEN ToInt(digits) ELSE 0
    IN IF Len(parts) < 5 THEN <<>>
       ELSE <<[filesystem |-> parts[1],
               size |-> IF six THEN parts[2] ELSE <<78, 47, 65>>,
               used |-> IF six THEN parts[3] ELSE parts[2],
               available |-> IF six THEN parts[4] ELSE parts[3],
               use_percent |-> use_percent,
               mount_point |-> IF six THEN parts[6] ELSE parts[5],
               use_percent_value |-> use_percent_value,
               status |-> UsageStatus(use_percent_value)]>>

RECURSIVE ParseDfLines(_)
ParseDfLines(lines) ==
    IF lines = <<>> THEN <<>>
    ELSE ParseDfLine(Head(lines)) \o ParseDfLines(Tail(lines))

\* (mutant) the rows in the order of the lines
KeepOrder(rows) == rows

\* list.sort(key=use_percent_value, reverse=True): stable, so rows with the
\* same percentage keep their order
RECURSIVE SortByUsage(_)
SortByUsage(rows) ==
    IF rows = <<>> THEN <<>>
    ELSE LET rest == SortByUsage(SubSeq(rows, 1, Len(rows) - 1))
             x == rows[Len(rows)]
             before == {i \in DOMAIN rest : rest[i].use_percent_value >= x.use_percent_value}
             k == IF before = {} THEN 0 ELSE CHOOSE i \in before : \A j \in before : i >= j
         IN SubSeq(rest, 1, k) \o <<x>> \o SubSeq(rest, k + 1, Len(rest))

_parse_df_output(output) ==
    LET lines == SplitOn(Strip(output), 10)
    IN IF Len(lines) > 1 THEN SortByUsage(ParseDfLines(Tail(lines))) ELSE <<>>

(***************************************************************************)
(* check_disk_space (tools/disk_check.py)                                  *)
(*                                                                         *)
(* world is what the hosts do during the call: the outcome (an env of the  *)
(* executor) of the df on the db component or on the direct host, of the   *)
(* df on the app component, and of each of the five per-directory dfs of   *)
(* _get_sap_hana_volumes.                                                  *)
(* sid and filesystem are <<>> and "" when not given.                      *)
(***************************************************************************)
\* the directories _get_sap_hana_volumes asks about: the word put in the
\* command and the same text as characters
SAP_DIRS ==
    <<[word |-> "/usr/sap", chars |-> <<47, 117, 115, 114, 47, 115, 97, 112>>],
      [word |-> "/sapmnt", chars |-> <<47, 115, 97, 112, 109, 110, 116>>],
      [word |-> "/hana/data", chars |-> <<47, 104, 97, 110, 97, 47, 100, 97, 116, 97>>],
      [word |-> "/hana/log", chars |-> <<47, 104, 97, 110, 97, 47, 108, 111, 103>>],
      [word |-> "/hana/shared",
       chars |-> <<47, 104, 97, 110, 97, 47, 115, 104, 97, 114, 101, 100>>]>>

\* "Not found"
NotFoundText == <<78, 111, 116, 32, 102, 111, 117, 110, 100>>

\* rows with row[key] = value added to each
Tagged(rows, key, value) == [i \in DOMAIN rows |-> Merge(rows[i], [x \in {key} |-> value])]

\* one executor call of check_disk_space: by SID and component, or on the
\* direct host with execute_command's defaults
RunDf(sid, component, host, command, env) ==
    IF sid # <<>>
    THEN execute_command_for_system(sid, component, command, FALSE, {}, env)
    ELSE execute_command(host, command, FALSE, {60}, EmptyDict, env)

\* the executor calls of the loop of _get_sap_hana_volumes, in order.  With
\* a SID every call names the db component; the executor returns its
\* configuration errors, so the `except ValueError` retry on the app
\* component never runs.
VolumeRuns(sid, host, envs) ==
    [i \in DOMAIN SAP_DIRS |->
        RunDf(sid, "db", host,
              <<"df", "-h", SAP_DIRS[i].word, "2>/dev/null", "||", "echo", "'Not found'">>,
              envs[i])]

\* the rows one directory contributes
VolumeRows(run, sap_dir) ==
    LET r == run.result
        relevant(fs) == \/ Contains(fs.mount_point, sap_dir.chars)
                        \/ Contains(sap_dir.chars, fs.mount_point)
    IN IF \/ r.status = "error"
          \/ r.return_code # 0
          \/ Contains(r.stdout.text, NotFoundText)
       THEN <<>>
       ELSE Tagged(SelectSeq(_parse_df_output(r.stdout.text), relevant),
                   "sap_directory", sap_dir.chars)

RECURSIVE ConcatAll(_)
ConcatAll(seqs) == IF seqs = <<>> THEN <<>> ELSE Head(seqs) \o ConcatAll(Tail(seqs))

_get_sap_hana_volumes(sid, host, envs) ==
    LET collect(runs) ==
            [volumes |-> ConcatAll([i \in DOMAIN runs |-> VolumeRows(runs[i], SAP_DIRS[i])]),
             procs |-> ConcatAll([i \in DOMAIN runs |-> runs[i].procs]),
             sessions |-> ConcatAll([i \in DOMAIN runs |-> runs[i].sessions])]
    IN collect(VolumeRuns(sid, host, envs))

\* auth_context is given and grants neither OS_VIEW nor the ADMIN role
PermissionDenied(auth_context, permission) ==
    /\ DOMAIN auth_context # {}
    /\ ~Get(Get(auth_context, "permissions", EmptyDict), permission, FALSE)
    /\ "ADMIN" \notin Get(auth_context, "roles", {})

DiskError(msg) == [status |-> "error", message |-> msg]

\* the rows a component contributes to all_filesystems
ComponentRows(run, component) ==
    IF run.result.status = "success" /\ run.result.return_code = 0
    THEN Tagged(_parse_df_output(run.result.stdout.text), "component", component)
    ELSE <<>>

\* what a call of check_disk_space leaves behind: the dict it returns and
\* the subprocesses and SSH clients it created
DiskDone(res, ps, ss) == [result |-> res, raised |-> FALSE, procs |-> ps, sessions |-> ss]

\* the success dict, after the per-directory commands of
\* _get_sap_hana_volumes (vols) have run
DiskSuccess(filesystems, ps, ss, vols) ==
    DiskDone([status |-> "success", timestamp |-> "now",
              filesystems |-> filesystems, sap_volumes |-> vols.volumes],
             ps \o vols.procs, ss \o vols.sessions)

\* the branch `if sid:` once get_system_config has returned components;
\* db and app are the executor calls made for the components that exist
DiskBySid(sid, components, db, app, vols) ==
    LET has_db == "db" \in DOMAIN components
        has_app == "app" \in DOMAIN components
        all_filesystems ==
            (IF has_db THEN ComponentRows(db, "db") ELSE <<>>)
            \o (IF has_app THEN ComponentRows(app, "app") ELSE <<>>)
        answer(filesystems) ==
            IF filesystems = <<>>
            THEN DiskDone(DiskError(Fmt("Failed to check disk space: {0}",
                                        <<MsgArg(Fmt("Failed to get filesystem information from any component",
                                                     <<>>))>>)),
                          db.procs \o app.procs, db.sessions \o app.sessions)
            ELSE DiskSuccess(filesystems, db.procs \o app.procs,
                             db.sessions \o app.sessions, vols)
    IN IF ~has_db /\ ~has_app
       THEN DiskDone(DiskError(Fmt("Failed to check disk space: {0}",
                                   <<MsgArg(Fmt("No valid components found for system {0}",
                                                <<SidArg(sid)>>))>>)), <<>>, <<>>)
       ELSE answer(all_filesystems)

\* the branch for a direct host
DiskByHost(direct, vols) ==
    IF direct.result.status = "error" \/ direct.result.return_code # 0
    THEN DiskDone(DiskError(Fmt("Failed to check disk space: {0}",
                                <<MsgArg(direct.result.stderr)>>)),
                  direct.procs, direct.sessions)
    ELSE DiskSuccess(_parse_df_output(direct.result.stdout.text),
                     direct.procs, direct.sessions, vols)

check_disk_space(sid, host, filesystem, auth_context, world) ==
    LET command == <<"df", "-h">> \o (IF filesystem # "" THEN <<filesystem>> ELSE <<>>)
        nothing == [result |-> None, procs |-> <<>>, sessions |-> <<>>]
        by_sid(system_config) ==
            IF system_config.raised
            THEN DiskDone(DiskError(Fmt("Error checking disk space: {0}",
                                        <<MsgArg(system_config.msg)>>)), <<>>, <<>>)
            ELSE DiskBySid(sid, Get(system_config.value, "components", EmptyDict),
                           IF "db" \in DOMAIN Get(system_config.value, "components", EmptyDict)
                           THEN RunDf(sid, "db", host, command, world.db) ELSE nothing,
                           IF "app" \in DOMAIN Get(system_config.value, "components", EmptyDict)
                           THEN RunDf(sid, "app", host, command, world.app) ELSE nothing,
                           _get_sap_hana_volumes(sid, host, world.vol))
    IN IF PermissionDenied(auth_context, "OS_VIEW")
       THEN DiskDone(DiskError(Fmt("Permission denied: OS_VIEW permission required", <<>>)),
                     <<>>, <<>>)
       ELSE IF sid # <<>>
       THEN by_sid(get_system_config(sid))
       ELSE DiskByHost(RunDf(sid, "db", host, command, world.db),
                       _get_sap_hana_volumes(sid, host, world.vol))

(***************************************************************************)
(* check_disk_space as an operation (SpecDisk)                             *)
(***************************************************************************)
MaxMounts == 2     \* data lines of a df table

\* "Filesystem Size Used Avail Use% Mounted on"
HeaderLine ==
    <<70, 105, 108, 101, 115, 121, 115, 116, 101, 109, 32, 83, 105, 122, 101, 32,
      85, 115, 101, 100, 32, 65, 118, 97, 105, 108, 32, 85, 115, 101, 37, 32,
      77, 111, 117, 110, 116, 101, 100, 32, 111, 110>>

\* "sda 5G 4G 1G 95% /"
LineRoot95 ==
    <<115, 100, 97, 32, 53, 71, 32, 52, 71, 32, 49, 71, 32, 57, 53, 37, 32, 47>>

\* "sdb 1T 8G 2G 85% /hana/data"
LineData85 ==
    <<115, 100, 98, 32, 49, 84, 32, 56, 71, 32, 50, 71, 32, 56, 53, 37, 32, 47, 104, 97, 110, 97, 47, 100, 97, 116, 97>>

\* "sdc 9G 1G 90% /hana/log": the five-field layout
LineLog90 ==
    <<115, 100, 99, 32, 57, 71, 32, 49, 71, 32, 57, 48, 37, 32, 47, 104, 97, 110, 97, 47, 108, 111, 103>>

\* "none 0 0 0 - /proc": no percentage
LineProc ==
    <<110, 111, 110, 101, 32, 48, 32, 48, 32, 48, 32, 45, 32, 47, 112, 114, 111, 99>>

DfLines == {LineRoot95, LineData85, LineLog90, LineProc}

\* the header followed by the lines, each ended by a newline
RECURSIVE JoinLines(_)
JoinLines(lines) ==
    IF lines = <<>> THEN <<>> ELSE Head(lines) \o <<10>> \o JoinLines(Tail(lines))

DfTables == {JoinLines(<<HeaderLine>> \o ls) : ls \in SeqsUpTo(DfLines, MaxMounts)}

OneMount == JoinLines(<<HeaderLine, LineData85>>)

\* what a host may answer to a df: any table, a failing df, no connection
DfEnvs ==
    {[Quiet EXCEPT !.out = t] : t \in DfTables}
    \cup {[Quiet EXCEPT !.rc = 1, !.err = <<69>>], [Quiet EXCEPT !.fault = "connect"]}

\* what it may answer to a per-directory df
VolumeEnvs == {[Quiet EXCEPT !.out = OneMount], [Quiet EXCEPT !.out = NotFoundText \o <<10>>]}

Reachable == [Quiet EXCEPT !.out = OneMount]

DiskWorlds ==
    {[db |-> e, app |-> Reachable, vol |-> [i \in DOMAIN SAP_DIRS |-> Reachable]] :
        e \in DfEnvs}
    \cup {[db |-> [Quiet EXCEPT !.fault = "connect"], app |-> e,
           vol |-> [i \in DOMAIN SAP_DIRS |-> [Quiet EXCEPT !.fault = "connect"]]] :
            e \in DfEnvs}
    \cup {[db |-> Reachable, app |-> Reachable, vol |-> v] :
            v \in [DOMAIN SAP_DIRS -> VolumeEnvs]}

\* the documents: one system stored under the key D54, database host
\* 10.0.0.5, global SSH user d54adm; with or without a "sid" field, and
\* with each set of components
DiskConfigs ==
    {[systems |-> <<[key |-> SidD54, cfg |-> r]>>, ssh |-> SshPassword] :
        r \in SystemRecords(SidD54)}
    \cup {Unreadable}

AuthContexts ==
    {EmptyDict,
     [permissions |-> [OS_VIEW |-> TRUE], roles |-> {}],
     [permissions |-> EmptyDict, roles |-> {"ADMIN"}],
     [permissions |-> [HANA_VIEW |-> TRUE], roles |-> {"OPERATOR"}]}

AllReachable ==
    [db |-> Reachable, app |-> Reachable, vol |-> [i \in DOMAIN SAP_DIRS |-> Reachable]]

\* the hosts' answers vary under plain requests (no filesystem, no
\* auth_context); the options of a request vary against hosts that answer
CheckDiskSpace ==
    /\ call = Idle
    /\ \E sid \in {SidD54, SidLowerD54, SidXXX, <<>>}, host \in {"", "10.0.0.9"},
          filesystem \in {"", "/hana/data"}, auth_context \in AuthContexts,
          world \in DiskWorlds :
          /\ sid # <<>> => host = ""
          /\ (filesystem = "" /\ auth_context = EmptyDict) \/ world = AllReachable
          /\ Finish([op |-> "check_disk_space", sid |-> sid, host |-> host,
                     filesystem |-> filesystem, auth_context |-> auth_context],
                    check_disk_space(sid, host, filesystem, auth_context, world))

InitDisk ==
    /\ configFile \in DiskConfigs
    /\ call = Idle
    /\ ret = None
    /\ procs = <<>>
    /\ sessions = <<>>
    /\ hosts = None
    /\ azure = None
    /\ connections = None

NextDisk ==
    \/ CheckDiskSpace
    \/ NextRequest

SpecDisk == InitDisk /\ [][NextDisk]_vars

(***************************************************************************)
(* Claims about check_disk_space                                           *)
(***************************************************************************)
IsDiskCall == call # Idle /\ call.op = "check_disk_space"

\* the permission gate at the top of check_disk_space lets the call through
Permitted == ~PermissionDenied(call.auth_context, "OS_VIEW")

\* no stored system answers to sid, by its key or by its "sid" field,
\* whatever the case
UnknownSid(sid) ==
    \A i \in DOMAIN StoredSystems :
        /\ Upper(StoredSystems[i].key) # Upper(sid)
        /\ "sid" \in DOMAIN StoredSystems[i].cfg
              => Upper(StoredSystems[i].cfg.sid) # Upper(sid)

UnknownSidCase ==
    /\ IsDiskCall
    /\ call.sid # <<>>
    /\ Permitted
    /\ UnknownSid(call.sid)

\* C8: check_disk_space for a SID that is not in the configuration returns
\* a dict with status "error" whose message carries the lookup's failure,
\* "System with SID <that SID> not found in configuration"; the call
\* creates no SSH client and starts no subprocess.
C8_UnknownSidNoConnection ==
    UnknownSidCase =>
        /\ ~ret.raised
        /\ ret.value.status = "error"
        /\ ret.value.message =
              Fmt("Error checking disk space: {0}",
                  <<MsgArg(Fmt("System with SID {0} not found in configuration",
                               <<SidArg(call.sid)>>))>>)
        /\ sessions = <<>>
        /\ procs = <<>>

\* check_disk_space(sid="XXX") has returned, against a configuration that
\* stores another system
C8_Witness ==
    /\ UnknownSidCase
    /\ call.sid = SidXXX
    /\ StoredSystems # <<>>
    /\ ret.value.status = "error"

\* the configuration stores the system under the key D54 with a db
\* component on 10.0.0.5 and the SSH user d54adm, and
\* check_disk_space(sid="D54") has returned
D54Scenario ==
    /\ IsDiskCall
    /\ call.sid = SidD54
    /\ call.filesystem = ""
    /\ Permitted
    /\ \E i \in DOMAIN StoredSystems :
          /\ StoredSystems[i].key = SidD54
          /\ "db" \in DOMAIN Layer(StoredSystems[i].cfg, "components")
          /\ Layer(StoredSystems[i].cfg, "components").db.hostname = "10.0.0.5"
    /\ GlobalSsh.username = "d54adm"

\* the first SSH client of the call is for 10.0.0.5 as d54adm, connect()
\* was called on it, and once connected it was sent df -h and nothing else
DfSession ==
    /\ sessions # <<>>
    /\ sessions[1].host = "10.0.0.5"
    /\ sessions[1].username = "d54adm"
    /\ sessions[1].connect_called
    /\ sessions[1].connected => sessions[1].commands = <<<<"df", "-h">>>>

\* the rows df printed in that session, as the parser reads them; none when
\* the session did not finish with exit status 0 and decodable output
DfRows ==
    IF /\ "exit_status" \in DOMAIN sessions[1]
       /\ sessions[1].exit_status = 0
       /\ Utf8Valid(sessions[1].out)
       /\ Utf8Valid(sessions[1].err)
    THEN _parse_df_output(Utf8Chars(sessions[1].out))
    ELSE <<>>

\* C9: with D54 configured (db on 10.0.0.5, SSH user d54adm),
\* check_disk_space(sid="D54") opens an SSH session to 10.0.0.5 as d54adm
\* and runs df -h in it; when that df prints mounts the call returns status
\* "success", and every mount of the returned list at 90% or more has
\* status "critical".
C9_D54EndToEnd ==
    D54Scenario =>
        /\ DfSession
        /\ DfRows # <<>> => ret.value.status = "success"
        /\ ret.value.status = "success" =>
              \A k \in DOMAIN ret.value.filesystems :
                  ret.value.filesystems[k].use_percent_value >= 90
                      => ret.value.filesystems[k].status = "critical"

\* the same end-to-end statement for the records that repeat the SID in a
\* "sid" field, which get_system_config finds
D54FoundBySidField ==
    (\E i \in DOMAIN StoredSystems : "sid" \in DOMAIN StoredSystems[i].cfg)
        => C9_D54EndToEnd

\* D54 is configured without a "sid" field and the call has returned the
\* lookup's failure without any session
D54NotFoundCase ==
    /\ D54Scenario
    /\ \A i \in DOMAIN StoredSystems : "sid" \notin DOMAIN StoredSystems[i].cfg
    /\ ret.value.status = "error"
    /\ sessions = <<>>

\* with the "sid" field, a df that printed a mount at 95% came back
\* flagged critical
D54CriticalCase ==
    /\ D54Scenario
    /\ ret.value.status = "success"
    /\ \E k \in DOMAIN ret.value.filesystems :
          /\ ret.value.filesystems[k].use_percent_value = 95
          /\ ret.value.filesystems[k].status = "critical"

(***************************************************************************)
(* Further properties of the executor (checked under Spec)                 *)
(***************************************************************************)
\* execute_command_as_sap_user has returned, having resolved a SAP user
\* with a username
SapUserResolved ==
    /\ Returned
    /\ call.op = "execute_command_as_sap_user"
    /\ ~get_system_info(call.sid, call.component).raised
    /\ ResolveSapUserType(ResolvedSapUsers, call.sap_user_type) # {}
    /\ HasText(ResolvedSapUsers[CHOOSE t \in ResolveSapUserType(ResolvedSapUsers,
                                                             call.sap_user_type) : TRUE],
               "username")

\* "sudo -u <username> <command>" for the resolved user of the call
SudoCommandOfCall ==
    <<"sudo", "-u",
      ResolvedSapUsers[CHOOSE t \in ResolveSapUserType(ResolvedSapUsers,
                                                       call.sap_user_type) : TRUE].username>>
    \o call.command

\* where and how an entry point ran its command: per subprocess the command
\* and the timeout, per SSH client the host, the SSH settings used, the
\* timeout and the commands sent
Dispatch(outcome) ==
    [procs |-> [i \in DOMAIN outcome.procs |->
                   [command |-> outcome.procs[i].command,
                    timeout |-> outcome.procs[i].timeout]],
     sessions |-> [i \in DOMAIN outcome.sessions |->
                      [host |-> outcome.sessions[i].host,
                       username |-> outcome.sessions[i].username,
                       port |-> outcome.sessions[i].port,
                       auth |-> outcome.sessions[i].auth,
                       timeout |-> outcome.sessions[i].timeout,
                       commands |-> outcome.sessions[i].commands]]]

\* the call dispatches as execute_command_for_system does for the wrapped
\* command, whatever the outside world does
SameDispatchAsForSystem ==
    \A env \in Envs :
        Dispatch(execute_command_as_sap_user(call.sid, call.component, call.command,
                                             call.sap_user_type, call.timeout, env))
        = Dispatch(execute_command_for_system(call.sid, call.component,
                                              SudoCommandOfCall, FALSE, call.timeout, env))

\* C11: executeAsSapUser behaves as executeForSystem called with
\* "sudo -u <username> <command>", no additional sudo and the same timeout:
\* for every timeout (unset, 0, positive) the two use the same target host,
\* command, SSH settings and effective timeout.
C11_DelegatesToForSystem == SapUserResolved => SameDispatchAsForSystem

\* the same statement for the timeouts other than 0
C11_ExceptTimeoutZero ==
    (SapUserResolved /\ call.timeout # {0}) => SameDispatchAsForSystem

\* executeAsSapUser with timeout=0 has run its command with the timeout 0
TimeoutZeroKept ==
    /\ SapUserResolved
    /\ call.timeout = {0}
    /\ \/ \E i \in DOMAIN procs : procs[i].timeout = {0}
       \/ \E i \in DOMAIN sessions : sessions[i].timeout = {0}

\* execute_command has returned the timeout error of the local path
LocalTimeoutReturned ==
    /\ Returned
    /\ call.op = "execute_command"
    /\ ~ret.raised
    /\ ret.value.return_code = -1
    /\ "fmt" \in DOMAIN ret.value.stderr
    /\ ret.value.stderr.fmt = "Command timeout after {0} seconds"

\* C12: when execute returns the timeout error of a local command
\* (return_code -1, stderr "Command timeout after <n> seconds"), the
\* subprocess the call spawned is no longer running.
C12_TimeoutCancelsSubprocess ==
    LocalTimeoutReturned => \A i \in DOMAIN procs : procs[i].state # "running"

\* the timeout error has been returned while the subprocess of the call is
\* still running
SubprocessOutlivesCall ==
    /\ LocalTimeoutReturned
    /\ Len(procs) = 1
    /\ procs[1].state = "running"
    /\ procs[1].command = call.command

\* C13: every SSH client created by a call of one of the executor's entry
\* points has been closed when the call returns, whether the command
\* succeeded, exited non-zero, or the key load, the connect or the
\* exec_command (a channel timeout included) failed.
C13_SessionsClosedOnReturn ==
    (Returned /\ IsExecutorCall) => \A i \in DOMAIN sessions : sessions[i].closed

\* a call whose connect() failed has returned, and its client is closed
C13_Witness ==
    /\ Returned
    /\ IsExecutorCall
    /\ Len(sessions) = 1
    /\ sessions[1].connect_called
    /\ ~sessions[1].connected
    /\ sessions[1].closed
    /\ ret.value.return_code = -1

\* the command execute hands to the shell or to exec_command
FullCommandOfCall == WithSudo(call.command, call.use_sudo)

\* C14: a call of execute makes one attempt: it creates at most one
\* subprocess or one SSH client (never both, never two), sends at most one
\* command over that client, and what it runs is the call's command; this
\* holds after a connect failure, an execution failure and a timeout alike.
C14_OneAttempt ==
    (Returned /\ call.op = "execute_command") =>
        /\ Len(procs) + Len(sessions) <= 1
        /\ \A i \in DOMAIN sessions : Len(sessions[i].commands) <= 1
        /\ CommandsRun \subseteq {FullCommandOfCall}

\* execute has returned the error of a failed exec_command: one client,
\* the command sent once
C14_Witness ==
    /\ Returned
    /\ call.op = "execute_command"
    /\ ret.value.return_code = -1
    /\ procs = <<>>
    /\ Len(sessions) = 1
    /\ sessions[1].connected
    /\ "exit_status" \notin DOMAIN sessions[1]
    /\ sessions[1].commands = <<FullCommandOfCall>>

(***************************************************************************)
(* check_hana_data_volume_sizes (tools/disk_check.py)                      *)
(*                                                                         *)
(* The function sends three shell commands to the database host, one       *)
(* await each: write the SQL to /tmp/hana_volumes_<sid>.sql, run hdbsql    *)
(* on that file, remove the file.  `hosts` is the machine they run on:     *)
(* the temporary files that exist and what the database prints.            *)
(***************************************************************************)
LowerChar(c) == IF c >= 65 /\ c <= 90 THEN c + 32 ELSE c

\* s.lower()
Lower(s) == [i \in DOMAIN s |-> LowerChar(s[i])]

\* the JSON documents hdbsql prints here, with the value json.loads gives:
\* "[]" and "[{\"SIZE\":200,\"USED_SIZE\":190}]"
JsonDocs ==
    {[text |-> <<91, 93>>, value |-> <<>>],
     [text |-> <<91, 123, 34, 83, 73, 90, 69, 34, 58, 50, 48, 48, 44, 34, 85, 83, 69, 68,
                 95, 83, 73, 90, 69, 34, 58, 49, 57, 48, 125, 93>>,
      value |-> <<[SIZE |-> 200, USED_SIZE |-> 190]>>]}

\* json.loads(part): the value of a known document, JSONDecodeError otherwise
json_loads(part) ==
    IF \E d \in JsonDocs : d.text = part
    THEN Return((CHOOSE d \in JsonDocs : d.text = part).value)
    ELSE Raise("JSONDecodeError", Fmt("Expecting value", <<>>))

\* the documents of the non-blank lines that parse, in order
RECURSIVE ParsedResults(_)
ParsedResults(json_parts) ==
    IF json_parts = <<>> THEN <<>>
    ELSE (IF Strip(Head(json_parts)) # <<>> /\ ~json_loads(Head(json_parts)).raised
          THEN <<json_loads(Head(json_parts)).value>> ELSE <<>>)
         \o ParsedResults(Tail(json_parts))

\* one row of M_DATA_VOLUMES as a volume_info dict; the percentage
\* (used / size) * 100 is kept as the fraction num/den
VolumeInfo(volume) ==
    LET size == Get(volume, "SIZE", 0)
        used == Get(volume, "USED_SIZE", 0)
        percent == IF size > 0 THEN [num |-> used * 100, den |-> size]
                   ELSE [num |-> 0, den |-> 1]
    IN [volume_id |-> Get(volume, "VOLUME_ID", ""),
        type |-> Get(volume, "TYPE", ""),
        path |-> Get(volume, "PATH", ""),
        size |-> size, used |-> used,
        free |-> Get(volume, "FREE_SIZE", 0),
        use_percent |-> IF size > 0 THEN Fmt("{0:.1f}%", <<percent>>) ELSE Fmt("N/A", <<>>),
        use_percent_value |-> percent,
        status |-> IF percent.num >= 90 * percent.den THEN "critical"
                   ELSE IF percent.num >= 80 * percent.den THEN "warning"
                   ELSE "normal"]

\* volumes.sort(key=use_percent_value, reverse=True), stable
RECURSIVE SortVolumes(_)
SortVolumes(rows) ==
    IF rows = <<>> THEN <<>>
    ELSE LET place(rest, x) ==
                 LET before == {i \in DOMAIN rest :
                                   rest[i].use_percent_value.num * x.use_percent_value.den
                                   >= x.use_percent_value.num * rest[i].use_percent_value.den}
                     k == IF before = {} THEN 0
                          ELSE CHOOSE i \in before : \A j \in before : i >= j
                 IN SubSeq(rest, 1, k) \o <<x>> \o SubSeq(rest, k + 1, Len(rest))
         IN place(SortVolumes(SubSeq(rows, 1, Len(rows) - 1)), rows[Len(rows)])

_parse_hana_sql_output(output) ==
    LET volumes_of(parsed_results) ==
            LET data_volumes == IF Len(parsed_results) > 2 THEN parsed_results[3] ELSE <<>>
            IN SortVolumes([i \in DOMAIN data_volumes |-> VolumeInfo(data_volumes[i])])
    IN volumes_of(ParsedResults(SplitOn(Strip(output), 10)))

\* f"/tmp/hana_volumes_{sid_lower}.sql"
SqlFile(sid) == Fmt("/tmp/hana_volumes_{0}.sql", <<SidArg(Lower(sid))>>)

\* the three commands, by the position of the function
HanaVolumesCommand(inv) ==
    CASE inv.pc = "create" ->
            Fmt("echo '{0}' > {1}", <<StrArg("sql_commands"), SqlFile(inv.sid)>>)
      [] inv.pc = "hdbsql" ->
            Fmt("sudo -u {0}adm hdbsql -i {1} -d SYSTEMDB -U SYSTEM -A -j -I {2}",
                <<SidArg(Lower(inv.sid)), StrArg(inv.instance_number), SqlFile(inv.sid)>>)
      [] inv.pc = "cleanup" -> Fmt("rm {0}", <<SqlFile(inv.sid)>>)

\* "No such file"
NoSuchFile == <<78, 111, 32, 115, 117, 99, 104, 32, 102, 105, 108, 101>>

\* what the shell of the host does with a command: exit status and output,
\* and the temporary files afterwards
HostAnswer(h, command) ==
    LET file == command.args[Len(command.args)]
        missing == [Quiet EXCEPT !.rc = 1, !.err = NoSuchFile]
    IN CASE command.fmt = "echo '{0}' > {1}" ->
               [env |-> Quiet, files |-> h.files \cup {file}]
         [] command.fmt = "rm {0}" ->
               [env |-> IF file \in h.files THEN Quiet ELSE missing,
                files |-> h.files \ {file}]
         [] OTHER ->
               [env |-> IF file \in h.files THEN [Quiet EXCEPT !.out = h.db] ELSE missing,
                files |-> h.files]

\* the command reached a shell (it was not stopped by a configuration error)
Ran(outcome) ==
    \/ outcome.procs # <<>>
    \/ \E i \in DOMAIN outcome.sessions : "exit_status" \in DOMAIN outcome.sessions[i]

\* instance_number when neither it nor host is passed
InstanceNumberOf(sid) ==
    LET number(system_info) ==
            IF system_info.raised THEN "00"
            ELSE Get(system_info.value, "instance_number", "00")
    IN number(get_system_info(sid, "db"))

NewInvocation(sid) ==
    [op |-> "check_hana_data_volume_sizes", sid |-> sid, pc |-> "create",
     instance_number |-> InstanceNumberOf(sid), result |-> None]

HanaVolumesError(message) == [status |-> "error", message |-> message, volumes |-> <<>>]

IsFailure(result) == result.status = "error" \/ result.return_code # 0

\* the invocation from one await to the next: its command runs on the host,
\* and the function goes on to its next command or returns
HanaVolumesStep(inv, h) ==
    LET after(answer, outcome) ==
            LET files == IF Ran(outcome) THEN answer.files ELSE h.files
                result == outcome.result
                go(pc, kept, returned) ==
                    [inv |-> [inv EXCEPT !.pc = pc, !.result = kept],
                     ret |-> returned, files |-> files,
                     procs |-> outcome.procs, sessions |-> outcome.sessions]
            IN CASE inv.pc = "create" ->
                       IF IsFailure(result)
                       THEN go("done", None,
                               Return(HanaVolumesError("Failed to create SQL file")))
                       ELSE go("hdbsql", None, None)
                 [] inv.pc = "hdbsql" -> go("cleanup", result, None)
                 [] inv.pc = "cleanup" ->
                       IF IsFailure(inv.result)
                       THEN go("done", inv.result,
                               Return(HanaVolumesError("Failed to get HANA volume sizes")))
                       ELSE go("done", inv.result,
                               Return([status |-> "success", system_id |-> Upper(inv.sid),
                                       volumes |-> _parse_hana_sql_output(
                                                       inv.result.stdout.text)]))
        run(command) ==
            after(HostAnswer(h, command),
                  execute_command_for_system(inv.sid, "db", command, FALSE, {},
                                             HostAnswer(h, command).env))
    IN run(HanaVolumesCommand(inv))

\* the invocation run from where it is to its return with nothing in between
RECURSIVE HanaVolumesRun(_, _)
HanaVolumesRun(inv, h) ==
    LET continue(step) ==
            IF step.inv.pc = "done" THEN step
            ELSE LET rest == HanaVolumesRun(step.inv, [h EXCEPT !.files = step.files])
                 IN [rest EXCEPT !.procs = step.procs \o rest.procs,
                                 !.sessions = step.sessions \o rest.sessions]
    IN continue(HanaVolumesStep(inv, h))

\* check_hana_data_volume_sizes(sid) on a host with no invocation in flight
check_hana_data_volume_sizes(sid, h) ==
    HanaVolumesRun(NewInvocation(sid), h).ret

(***************************************************************************)
(* Invocations in flight under one event loop (SpecConc)                   *)
(*                                                                         *)
(* `call` is the sequence of invocations started, each with its position;  *)
(* `ret` holds what each has returned (None while in flight).  A command   *)
(* for a local target awaits its subprocess, so other invocations run      *)
(* between two commands of one invocation; a command for a remote target   *)
(* blocks the loop in paramiko, and an invocation that only sends those    *)
(* runs from start to return without yielding.                             *)
(***************************************************************************)
MaxInFlight == 2     \* invocations started

\* what hdbsql prints for the three statements: no data volume, or one
DbOutputs ==
    {JoinLines(<<<<91, 93>>, <<91, 93>>, d.text>>) : d \in JsonDocs}

\* one system D54 whose database runs on the gateway's own host, or on
\* 10.0.0.5
ConcConfigs ==
    {[systems |-> <<[key |-> SidD54,
                     cfg |-> [description |-> "development", type |-> "SAP_HANA",
                              components |-> [db |-> [CompDb EXCEPT !.hostname = h]]]]>>,
      ssh |-> SshPassword] : h \in {"localhost", "10.0.0.5"}}
    \cup {Unreadable}

\* the invocation's commands are awaited subprocesses on this host
Suspends(inv) ==
    LET local(system_info) ==
            ~system_info.raised /\ IsLocalTarget(system_info.value.hostname)
    IN local(get_system_info(inv.sid, "db"))

Proceed(i, step) ==
    /\ call' = [call EXCEPT ![i] = step.inv]
    /\ ret' = [ret EXCEPT ![i] = step.ret]
    /\ hosts' = [hosts EXCEPT !.files = step.files]
    /\ procs' = procs \o step.procs
    /\ sessions' = sessions \o step.sessions
    /\ UNCHANGED <<configFile, azure, connections>>

\* a tool call arrives and its coroutine is created
Invoke ==
    /\ Len(call) < MaxInFlight
    /\ \E sid \in QuerySids :
          /\ call' = Append(call, NewInvocation(sid))
          /\ ret' = Append(ret, None)
    /\ UNCHANGED <<configFile, procs, sessions, hosts, azure, connections>>

\* the event loop resumes an invocation whose subprocess has finished
StepLocal ==
    \E i \in DOMAIN call :
        /\ call[i].pc # "done"
        /\ Suspends(call[i])
        /\ Proceed(i, HanaVolumesStep(call[i], hosts))

\* the event loop runs an invocation that never yields
RunBlocking ==
    \E i \in DOMAIN call :
        /\ call[i].pc # "done"
        /\ ~Suspends(call[i])
        /\ Proceed(i, HanaVolumesRun(call[i], hosts))

InitConc ==
    /\ configFile \in ConcConfigs
    /\ call = <<>>
    /\ ret = <<>>
    /\ procs = <<>>
    /\ sessions = <<>>
    /\ hosts \in [files : {{}}, db : DbOutputs]
    /\ azure = None
    /\ connections = None

NextConc ==
    \/ Invoke
    \/ StepLocal
    \/ RunBlocking

SpecConc == InitConc /\ [][NextConc]_vars

\* the temporary files were all removed before the first invocation
HostAtStart == [hosts EXCEPT !.files = {}]

\* C15: every invocation that has returned, returned what it returns when it
\* runs alone, whatever the other invocation in flight did in between
C15_SameResultAsAlone ==
    \A i \in DOMAIN call :
        ret[i] # None => ret[i] = check_hana_data_volume_sizes(call[i].sid, HostAtStart)

\* the race: two invocations for the same database, one alone succeeds, and
\* this one failed because the other removed the shared file
SharedFileRace ==
    \E i, j \in DOMAIN call :
        /\ i # j
        /\ SqlFile(call[i].sid) = SqlFile(call[j].sid)
        /\ ret[i] = Return(HanaVolumesError("Failed to get HANA volume sizes"))
        /\ ~check_hana_data_volume_sizes(call[i].sid, HostAtStart).raised
        /\ check_hana_data_volume_sizes(call[i].sid, HostAtStart).value.status = "success"

\* on a remote database host no interleaving exists, and the results are
\* those of running alone
RemoteOnlySameAsAlone ==
    (\A i \in DOMAIN call : ~Suspends(call[i])) => C15_SameResultAsAlone

(***************************************************************************)
(* The tool boundary (server.py): the check_disk_space tool (SpecTool)     *)
(***************************************************************************)
\* a Python dict with the type isinstance sees ("str" and "list" are the
\* other types format_result_content tells apart)
PyDict(d) == [type |-> "dict", value |-> d]

\* str(result)
StrOf(result) == [str_of |-> result.value]

TextItem(text) == [type |-> "text", text |-> text]

format_result_content(result) ==
    IF result.type = "dict" /\ "content" \in DOMAIN result.value
       /\ "isError" \in DOMAIN result.value
    THEN result.value
    ELSE IF result.type = "str"
    THEN [content |-> <<TextItem(result.value)>>, isError |-> FALSE]
    ELSE IF result.type = "list" /\ \A i \in DOMAIN result.value : result.value[i].type = "dict"
    THEN [content |-> [i \in DOMAIN result.value |-> result.value[i].value],
          isError |-> FALSE]
    ELSE [content |-> <<TextItem(StrOf(result))>>, isError |-> FALSE]

\* the sid the tool passes on: the first key of the configuration when
\* neither sid nor host is given
DefaultedSid(sid, host) ==
    IF sid = <<>> /\ host = "" /\ SystemsOf(load_system_config) # <<>>
    THEN SystemsOf(load_system_config)[1].key
    ELSE sid

\* server.check_disk_space: the envelope returned to the MCP host, with the
\* dict the implementation returned (impl) and what the call created
tool_check_disk_space(sid, host, filesystem, auth_context, world) ==
    LET wrap(outcome) ==
            [result |-> IF outcome.raised
                        THEN [content |-> <<TextItem(Fmt("Error checking disk space: {0}",
                                                         <<MsgArg(outcome.exc.msg)>>))>>,
                              isError |-> TRUE]
                        ELSE format_result_content(PyDict(outcome.result)),
             raised |-> FALSE, impl |-> outcome,
             procs |-> outcome.procs, sessions |-> outcome.sessions]
    IN wrap(check_disk_space(DefaultedSid(sid, host), host, filesystem, auth_context, world))

ToolCheckDiskSpace ==
    /\ call = Idle
    /\ \E sid \in {SidD54, SidLowerD54, SidXXX, <<>>}, host \in {"", "10.0.0.9"},
          filesystem \in {"", "/hana/data"}, auth_context \in AuthContexts,
          world \in DiskWorlds :
          /\ sid # <<>> => host = ""
          /\ (filesystem = "" /\ auth_context = EmptyDict) \/ world = AllReachable
          /\ LET done(outcome) ==
                     Finish([op |-> "tool_check_disk_space", sid |-> sid, host |-> host,
                             filesystem |-> filesystem, auth_context |-> auth_context,
                             impl |-> outcome.impl],
                            outcome)
             IN done(tool_check_disk_space(sid, host, filesystem, auth_context, world))

NextTool ==
    \/ ToolCheckDiskSpace
    \/ NextRequest

SpecTool == InitDisk /\ [][NextTool]_vars

IsToolCall == call # Idle /\ call.op = "tool_check_disk_space"

\* the implementation failed: it raised, or returned a dict with status "error"
ImplFailed == call.impl.raised \/ call.impl.result.status = "error"

\* the envelope carries a text entry
HasTextEntry(envelope) ==
    \E i \in DOMAIN envelope.content : envelope.content[i].type = "text"

\* C16: whenever the implementation fails, the envelope returned across the
\* tool boundary has isError true and a text entry, and nothing is raised
C16_FailureFlagged ==
    (IsToolCall /\ ImplFailed) =>
        /\ ~ret.raised
        /\ ret.value.isError
        /\ HasTextEntry(ret.value)

\* the parts of C16 the tool does keep: nothing crosses the boundary as an
\* exception, and every envelope has a text entry
ToolNeverRaises == IsToolCall => ~ret.raised /\ HasTextEntry(ret.value)

\* an unknown SID: the implementation reports an error, the envelope does not
UnflaggedFailure ==
    /\ IsToolCall /\ call.sid = SidXXX
    /\ ImplFailed
    /\ ~ret.value.isError

(***************************************************************************)
(* SSHClient (tools/azure_tools/ssh_client.py) (SpecSsh)                   *)
(*                                                                         *)
(* `sessions` holds the one wrapper object: its `connected` flag and the   *)
(* paramiko client it owns.  `hosts` is the world the wrapper connects     *)
(* into: whether the server answers, the password it accepts, whether it   *)
(* accepts the key, and the key file with its passphrase ({} when the key  *)
(* is not encrypted).  `call` is the last method called, with the wrapper  *)
(* as it was before the call.                                              *)
(***************************************************************************)
SshServer == "10.0.0.5"

\* "" stands for no passphrase (None)
Secrets == {"", "secret", "phrase", "wrong"}

SshWorlds ==
    [up : BOOLEAN, password : {"secret"}, key_accepted : BOOLEAN,
     key_exists : BOOLEAN, key_phrase : {{}, {"phrase"}}]

\* paramiko.RSAKey.from_private_key_file(key_path, password): IOError when
\* the file cannot be read, PasswordRequiredException when it is encrypted
\* and no password is given, SSHException when it cannot be decoded
from_private_key_file(world, key_path, password) ==
    IF ~world.key_exists
    THEN Raise("FileNotFoundError",
               Fmt("[Errno 2] No such file or directory: {0}", <<StrArg(key_path)>>))
    ELSE IF world.key_phrase # {} /\ password = {}
    THEN Raise("PasswordRequiredException", Fmt("Private key file is encrypted", <<>>))
    ELSE IF world.key_phrase # {} /\ password # world.key_phrase
    THEN Raise("SSHException", Fmt("not a valid RSA private key file", <<>>))
    ELSE Return([key_file |-> key_path])

\* paramiko's SSHClient.connect(...): the socket, then authentication
client_connect(world, hostname, port, accepted) ==
    IF ~world.up \/ hostname # SshServer
    THEN Raise("NoValidConnectionsError",
               Fmt("Unable to connect to port {0} on {1}", <<IntArg(port), StrArg(hostname)>>))
    ELSE IF ~accepted
    THEN Raise("AuthenticationException", Fmt("Authentication failed.", <<>>))
    ELSE Return(None)

\* SSHClient(): not connected, with a fresh paramiko client
NewSSHClient == [connected |-> FALSE, client |-> "new"]

\* what a method leaves: the wrapper after it, and its return or exception
Left(self, outcome) == [self |-> self, ret |-> outcome]

\* the two outcomes of the try block of the connect methods
Connected(self, template, hostname, port, username, attempt) ==
    IF attempt.raised
    THEN Left([self EXCEPT !.connected = FALSE],
              Raise("SSHException",
                    Fmt(template, <<StrArg(hostname), IntArg(port), StrArg(username),
                                    MsgArg(attempt.msg)>>)))
    ELSE Left([connected |-> TRUE, client |-> "open"], Return(None))

\* (mutant) the message names the password in place of the username
connect_with_password_told(self, world, hostname, username, password, port) ==
    Connected(self, "Failed to connect to {0}:{1} as {2}: {3}", hostname, port, password,
              client_connect(world, hostname, port, password = world.password))

connect_with_password(self, world, hostname, username, password, port) ==
    Connected(self, "Failed to connect to {0}:{1} as {2}: {3}", hostname, port, username,
              client_connect(world, hostname, port, password = world.password))

connect_with_key(self, world, hostname, username, key_path, password, port) ==
    LET \* from_private_key_file(key_path, password=password) if password else
        \* from_private_key_file(key_path)
        key == from_private_key_file(world, key_path,
                                     IF password # "" THEN {password} ELSE {})
    IN Connected(self, "Failed to connect to {0}:{1} as {2} using key: {3}",
                 hostname, port, username,
                 IF key.raised THEN key
                 ELSE client_connect(world, hostname, port, world.key_accepted))

\* (mutant) close() without `self.connected = False`
close_keeps_flag(self) ==
    IF self.connected
    THEN Left([self EXCEPT !.client = "closed"], Return(None))
    ELSE Left(self, Return(None))

close(self) ==
    IF self.connected
    THEN Left([connected |-> FALSE, client |-> "closed"], Return(None))
    ELSE Left(self, Return(None))

Self == sessions[1]

Done(c, left) ==
    /\ call' = c
    /\ ret' = left.ret
    /\ sessions' = <<left.self>>
    /\ UNCHANGED <<configFile, procs, hosts, azure, connections>>

ConnectWithPassword ==
    \E hostname \in {SshServer, "10.0.0.6"}, password \in Secrets :
        Done([op |-> "connect_with_password", hostname |-> hostname,
              username |-> "d54adm", password |-> password, port |-> 22, before |-> Self],
             connect_with_password(Self, hosts, hostname, "d54adm", password, 22))

ConnectWithKey ==
    \E hostname \in {SshServer, "10.0.0.6"}, password \in Secrets :
        Done([op |-> "connect_with_key", hostname |-> hostname, username |-> "d54adm",
              key_path |-> "/keys/id_rsa", password |-> password, port |-> 22,
              before |-> Self],
             connect_with_key(Self, hosts, hostname, "d54adm", "/keys/id_rsa", password, 22))

Close ==
    Done([op |-> "close", before |-> Self], close(Self))

InitSsh ==
    /\ configFile = None
    /\ call = Idle
    /\ ret = None
    /\ procs = <<>>
    /\ sessions = <<NewSSHClient>>
    /\ hosts \in SshWorlds
    /\ azure = None
    /\ connections = None

NextSsh ==
    \/ ConnectWithPassword
    \/ ConnectWithKey
    \/ Close

SpecSsh == InitSsh /\ [][NextSsh]_vars

(***************************************************************************)
(* Claims about SSHClient (checked under SpecSsh)                          *)
(***************************************************************************)
IsConnectCall == call # Idle /\ call.op \in {"connect_with_password", "connect_with_key"}

ConnectFailed == IsConnectCall /\ ret.raised

\* the same connect, on the same wrapper in the same world, with another secret
Again(secret) ==
    IF call.op = "connect_with_password"
    THEN connect_with_password(call.before, hosts, call.hostname, call.username,
                               secret, call.port).ret
    ELSE connect_with_key(call.before, hosts, call.hostname, call.username,
                          call.key_path, secret, call.port).ret

\* the error is an SSHException whose message starts with host, port and user
NamesContext(e) ==
    /\ e.type = "SSHException"
    /\ e.msg.fmt \in {"Failed to connect to {0}:{1} as {2}: {3}",
                      "Failed to connect to {0}:{1} as {2} using key: {3}"}
    /\ e.msg.args[1] = StrArg(call.hostname)
    /\ e.msg.args[2] = IntArg(call.port)
    /\ e.msg.args[3] = StrArg(call.username)

\* the text of the secret is no part of the message
SecretFree(e) ==
    /\ \A i \in DOMAIN e.msg.args : e.msg.args[i] # StrArg(call.password)
    /\ \A i \in DOMAIN e.msg.args[4].msg.args : e.msg.args[4].msg.args[i] # StrArg(call.password)

\* for a key, the secret stands as the supplied one does: a passphrase is
\* given or not, and it opens the key file or not
SameStanding(secret) ==
    call.op = "connect_with_key" =>
        /\ (secret = "") = (call.password = "")
        /\ ({secret} = hosts.key_phrase) = ({call.password} = hosts.key_phrase)

\* C17 (as stated): a failed connect names host, port and username, and any
\* other secret with which the connect also fails gives the same message
C17_AnySecretSameMessage ==
    ConnectFailed =>
        /\ NamesContext(ret)
        /\ \A s \in Secrets : Again(s).raised => Again(s).msg = ret.msg

\* C17 (amended): a failed connect names host, port and username and never
\* contains the secret; the message is the same for every password, and for
\* every passphrase that is likewise given or not and likewise opens the key
\* file or not
C17_SecretNotInMessage ==
    ConnectFailed =>
        /\ NamesContext(ret)
        /\ SecretFree(ret)
        /\ \A s \in Secrets :
              (Again(s).raised /\ SameStanding(s)) => Again(s).msg = ret.msg

\* the server refused one secret and refuses a different one
C17_Witness ==
    /\ ConnectFailed
    /\ call.password # ""
    /\ ret.msg.args[4].msg.fmt = "Authentication failed."
    /\ \E s \in Secrets \ {call.password, ""} : Again(s).raised /\ SameStanding(s)

\* the passphrase opens the key, the server rejects it: with a wrong
\* passphrase the message is another
PassphraseTold ==
    /\ ConnectFailed /\ call.op = "connect_with_key"
    /\ {call.password} = hosts.key_phrase
    /\ \E s \in Secrets : Again(s).raised /\ Again(s).msg # ret.msg

\* C18: close() is idempotent: a second close changes nothing, close on a
\* wrapper that is not connected (never connected, or closed) raises nothing
\* and leaves it as it is, and after every close the wrapper is unconnected
C18_CloseIdempotent ==
    /\ close(close(Self).self) = close(Self)
    /\ ~Self.connected => close(Self) = Left(Self, Return(None))
    /\ (call # Idle /\ call.op = "close") =>
          /\ ~ret.raised
          /\ ~Self.connected
          /\ ~call.before.connected => Self = call.before

\* close() was called on a wrapper that had been closed already
C18_Witness ==
    /\ call # Idle /\ call.op = "close"
    /\ ~call.before.connected
    /\ call.before.client = "closed"

\* close() was called on a wrapper that never connected
ClosedNeverConnected ==
    /\ call # Idle /\ call.op = "close"
    /\ call.before = NewSSHClient

(***************************************************************************)
(* _parse_df_output on synthetic df -h tables (SpecDf)                     *)
(*                                                                         *)
(* A table is a sequence of mounts with known names and percentages; it is *)
(* printed as df prints it (six columns, or five where the system leaves   *)
(* the size column out) and the text is parsed.                            *)
(***************************************************************************)
\* usage percentages around the two thresholds; NoPercent prints as "-"
NoPercent == -1
Percents == {79, 80, 89, 90, 100, NoPercent}

\* "sda" on "/" and "sdb" on "/hana"
Devices ==
    {[filesystem |-> <<115, 100, 97>>, mount_point |-> <<47>>],
     [filesystem |-> <<115, 100, 98>>, mount_point |-> <<47, 104, 97, 110, 97>>]}

Mounts ==
    {[filesystem |-> d.filesystem, mount_point |-> d.mount_point,
      percent |-> p, columns |-> c] : d \in Devices, p \in Percents, c \in {5, 6}}

\* str(n) for n >= 0
RECURSIVE DigitsOf(_)
DigitsOf(n) ==
    IF n < 10 THEN <<48 + n>> ELSE DigitsOf(n \div 10) \o <<48 + (n % 10)>>

RECURSIVE JoinWords(_)
JoinWords(words) ==
    IF Len(words) = 1 THEN words[1]
    ELSE Head(words) \o <<32>> \o JoinWords(Tail(words))

\* the line df prints for a mount: name, [size "5G",] used "4G", available
\* "1G", Use%, mount point
DfLine(m) ==
    JoinWords(<<m.filesystem>>
              \o (IF m.columns = 6 THEN <<<<53, 71>>>> ELSE <<>>)
              \o <<<<52, 71>>, <<49, 71>>,
                   IF m.percent = NoPercent THEN <<45>> ELSE DigitsOf(m.percent) \o <<37>>,
                   m.mount_point>>)

DfTable(table) == JoinLines(<<HeaderLine>> \o [i \in DOMAIN table |-> DfLine(table[i])])

ParseDfOutput ==
    /\ call = Idle
    /\ \E table \in SeqsUpTo(Mounts, MaxMounts) :
          Finish([op |-> "_parse_df_output", table |-> table, output |-> DfTable(table)],
                 [result |-> _parse_df_output(DfTable(table)), raised |-> FALSE,
                  procs |-> <<>>, sessions |-> <<>>])

InitDf ==
    /\ configFile = None
    /\ call = Idle
    /\ ret = None
    /\ procs = <<>>
    /\ sessions = <<>>
    /\ hosts = None
    /\ azure = None
    /\ connections = None

NextDf ==
    \/ ParseDfOutput
    \/ NextRequest

SpecDf == InitDf /\ [][NextDf]_vars

IsParseCall == call # Idle /\ call.op = "_parse_df_output"

\* the percentage the parser is to read from the line of a mount
PercentOf(m) == IF m.percent = NoPercent THEN 0 ELSE m.percent

\* the row is the row of the mount: its names, its percentage
RowOf(row, m) ==
    /\ row.filesystem = m.filesystem
    /\ row.mount_point = m.mount_point
    /\ row.use_percent_value = PercentOf(m)

\* C19: every row has status critical iff its percentage is >= 90, warning
\* iff it is >= 80 and < 90, normal otherwise; every row carries the
\* filesystem name, mount point and percentage of a line of the table, and
\* every line of the table has its row
C19_StatusAndNames ==
    IsParseCall =>
        /\ \A k \in DOMAIN ret.value :
              /\ ret.value[k].status = "critical" <=> ret.value[k].use_percent_value >= 90
              /\ ret.value[k].status = "warning" <=>
                    (ret.value[k].use_percent_value >= 80 /\ ret.value[k].use_percent_value < 90)
              /\ ret.value[k].status = "normal" <=> ret.value[k].use_percent_value < 80
              /\ \E j \in DOMAIN call.table : RowOf(ret.value[k], call.table[j])
        /\ \A j \in DOMAIN call.table :
              \E k \in DOMAIN ret.value : RowOf(ret.value[k], call.table[j])

\* a table with a mount at exactly 90% and one at exactly 80% was parsed
C19_Witness ==
    /\ IsParseCall
    /\ \E j, k \in DOMAIN call.table :
          call.table[j].percent = 90 /\ call.table[k].percent = 80
    /\ Len(ret.value) = 2

\* the rows of the data lines, in the order of the lines
RowsOfLines == ParseDfLines(Tail(SplitOn(Strip(call.output), 10)))

\* rows is a rearrangement of lines
IsPermutation(rows, lines) ==
    /\ Len(rows) = Len(lines)
    /\ \E p \in [DOMAIN rows -> DOMAIN rows] :
          /\ \A a, b \in DOMAIN rows : a # b => p[a] # p[b]
          /\ \A k \in DOMAIN rows : rows[k] = lines[p[k]]

\* C20: the returned list is in non-increasing order of usage percentage, and
\* is a rearrangement of the rows of the data lines, one per line of the table
C20_SortedPermutation ==
    IsParseCall =>
        /\ \A k \in 1 .. (Len(ret.value) - 1) :
              ret.value[k].use_percent_value >= ret.value[k + 1].use_percent_value
        /\ IsPermutation(ret.value, RowsOfLines)
        /\ Len(ret.value) = Len(call.table)

\* the table listed a fuller mount after an emptier one
C20_Witness ==
    /\ IsParseCall
    /\ Len(call.table) = 2
    /\ PercentOf(call.table[1]) < PercentOf(call.table[2])
    /\ RowOf(ret.value[1], call.table[2])

(***************************************************************************)
(* The parsers of HDB output (tools/hana_status.py)                        *)
(***************************************************************************)
\* t.splitlines(): the lines, without an empty piece after a final newline
SplitLines(t) ==
    LET pieces == SplitOn(t, 10)
    IN IF t = <<>> THEN <<>>
       ELSE IF pieces[Len(pieces)] = <<>> THEN SubSeq(pieces, 1, Len(pieces) - 1)
       ELSE pieces

\* " ".join(words)
RECURSIVE JoinSpace(_)
JoinSpace(words) ==
    IF words = <<>> THEN <<>>
    ELSE IF Len(words) = 1 THEN words[1]
    ELSE Head(words) \o <<32>> \o JoinSpace(Tail(words))

IsDigit(c) == c >= 48 /\ c <= 57

\* the longest run of characters of `class` starting at position i
RECURSIVE RunFrom(_, _, _)
RunFrom(t, i, class) ==
    IF i <= Len(t) /\ t[i] \in class THEN <<t[i]>> \o RunFrom(t, i + 1, class) ELSE <<>>

Digits == 48 .. 57

\* (mutant) the group is one digit
PortSearchOneDigit(text) ==
    LET prefix == <<45, 112, 111, 114, 116, 32>>
        at == {i \in 1 .. Len(text) :
                  /\ i + Len(prefix) <= Len(text)
                  /\ SubSeq(text, i, i + Len(prefix) - 1) = prefix
                  /\ IsDigit(text[i + Len(prefix)])}
        first == CHOOSE i \in at : \A j \in at : i <= j
    IN IF at = {} THEN None ELSE Text(<<text[first + Len(prefix)]>>)

\* re.search(r'-port (\d+)', text): group 1 of the first match, or None
PortSearch(text) ==
    LET prefix == <<45, 112, 111, 114, 116, 32>>
        at == {i \in 1 .. Len(text) :
                  /\ i + Len(prefix) <= Len(text)
                  /\ SubSeq(text, i, i + Len(prefix) - 1) = prefix
                  /\ IsDigit(text[i + Len(prefix)])}
        first == CHOOSE i \in at : \A j \in at : i <= j
    IN IF at = {} THEN None ELSE Text(RunFrom(text, first + Len(prefix), Digits))

\* hana_services, in the order the loop tries them
HANA_SERVICES ==
    <<<<104, 100, 98, 110, 97, 109, 101, 115, 101, 114, 118, 101, 114>>,
      <<104, 100, 98, 105, 110, 100, 101, 120, 115, 101, 114, 118, 101, 114>>,
      <<104, 100, 98, 99, 111, 109, 112, 105, 108, 101, 115, 101, 114, 118, 101, 114>>,
      <<104, 100, 98, 112, 114, 101, 112, 114, 111, 99, 101, 115, 115, 111, 114>>,
      <<104, 100, 98, 119, 101, 98, 100, 105, 115, 112, 97, 116, 99, 104, 101, 114>>,
      <<104, 100, 98, 120, 115, 101, 110, 103, 105, 110, 101>>,
      <<104, 100, 98, 100, 112, 115, 101, 114, 118, 101, 114>>,
      <<104, 100, 98, 100, 111, 99, 115, 116, 111, 114, 101>>,
      <<104, 100, 98, 115, 99, 114, 105, 112, 116, 115, 101, 114, 118, 101, 114>>,
      <<104, 100, 98, 100, 105, 115, 101, 114, 118, 101, 114>>>>

\* the first service name found in the command part, as <<name>>, or <<>>
FirstService(command_part) ==
    LET found == {i \in DOMAIN HANA_SERVICES : Contains(command_part, HANA_SERVICES[i])}
    IN IF found = {} THEN <<>>
       ELSE <<HANA_SERVICES[CHOOSE i \in found : \A j \in found : i <= j]>>

\* the row of one line of a process listing: <<row>>, or <<>>
PsLineService(line) ==
    LET parts == SplitWords(line)
        command_part == JoinSpace(SubSeq(parts, 7, Len(parts)))
        name == FirstService(command_part)
    IN IF Len(parts) < 7 \/ name = <<>> THEN <<>>
       ELSE <<[name |-> name[1], status |-> <<114, 117, 110, 110, 105, 110, 103>>, pid |-> parts[2],
               port |-> PortSearch(command_part),
               details |-> [user |-> parts[1], cpu |-> parts[4], memory |-> parts[6]]]>>

RECURSIVE PsServices(_)
PsServices(lines) ==
    IF lines = <<>> THEN <<>>
    ELSE PsLineService(Head(lines)) \o PsServices(Tail(lines))

\* line.split(':', 1), both halves stripped
KeyValue(line) ==
    LET at == {i \in DOMAIN line : line[i] = 58}
        first == CHOOSE i \in at : \A j \in at : i <= j
    IN [key |-> Strip(SubSeq(line, 1, first - 1)),
        value |-> Strip(SubSeq(line, first + 1, Len(line)))]

\* details[key] = value
SetDetail(details, kv) ==
    SelectSeq(details, LAMBDA d : d.key # kv.key) \o <<kv>>

\* the loop of the standard format: the services appended so far and
\* current_service (<<>> for None), after the lines
RECURSIVE StandardServices(_, _, _)
StandardServices(lines, services, current_service) ==
    IF lines = <<>> THEN services \o current_service
    ELSE LET line == Strip(Head(lines))
             parts == SplitWords(line)
         IN IF line = <<>>
            THEN StandardServices(Tail(lines), services, current_service)
            ELSE IF Len(line) >= 3 /\ SubSeq(line, 1, 3) = <<104, 100, 98>>
            THEN StandardServices(Tail(lines), services \o current_service,
                                  IF Len(parts) >= 2
                                  THEN <<[name |-> parts[1], status |-> parts[2],
                                          details |-> <<>>]>>
                                  ELSE current_service)
            ELSE IF current_service # <<>> /\ \E i \in DOMAIN line : line[i] = 58
            THEN StandardServices(Tail(lines), services,
                                  <<[current_service[1] EXCEPT
                                        !.details = SetDetail(@, KeyValue(line))]>>)
            ELSE StandardServices(Tail(lines), services, current_service)

parse_hdb_info_output(output) ==
    IF output = <<>> \/ Strip(output) = <<>> THEN <<>>
    ELSE IF /\ Contains(output, <<85, 83, 69, 82>>)
            /\ Contains(output, <<80, 73, 68>>)
            /\ Contains(output, <<67, 79, 77, 77, 65, 78, 68>>)
    THEN PsServices(Tail(SplitLines(output)))
    ELSE StandardServices(SplitLines(output), <<>>, <<>>)

\* \s of a Python str pattern
Spaces == (9 .. 13) \cup (28 .. 32) \cup {133, 160}

\* [0-9.]
VersionChars == Digits \cup {46}

\* position after the literals of `pieces`, each matched ignoring case and
\* followed by \s+, starting at i; 0 when they do not match there
RECURSIVE AfterPieces(_, _, _)
AfterPieces(t, i, pieces) ==
    IF pieces = <<>> THEN i
    ELSE LET p == Head(pieces)
             e == i + Len(p)
         IN IF e - 1 <= Len(t) /\ Lower(SubSeq(t, i, e - 1)) = p
               /\ RunFrom(t, e, Spaces) # <<>>
            THEN AfterPieces(t, e + Len(RunFrom(t, e, Spaces)), Tail(pieces))
            ELSE 0

\* re.search(<pieces joined by \s+> \s+ ([0-9.]+), t, re.IGNORECASE):
\* group 1 of the first match, as <<text>>, or <<>>
FieldSearch(t, pieces) ==
    LET group(i) == RunFrom(t, AfterPieces(t, i, pieces), VersionChars)
        at == {i \in DOMAIN t : AfterPieces(t, i, pieces) > 0 /\ group(i) # <<>>}
    IN IF at = {} THEN <<>> ELSE <<group(CHOOSE i \in at : \A j \in at : i <= j)>>

\* "Unknown"
Unknown == <<85, 110, 107, 110, 111, 119, 110>>

parse_hdb_version_output(output) ==
    LET version_match == FieldSearch(output, <<<<118, 101, 114, 115, 105, 111, 110, 58>>>>)
        patch_match == FieldSearch(output, <<<<112, 97, 116, 99, 104>>, <<110, 117, 109, 98, 101, 114, 58>>>>)
        revision_match == FieldSearch(output, <<<<114, 101, 118, 105, 115, 105, 111, 110, 58>>>>)
    IN With(With([version |-> IF version_match # <<>> THEN version_match[1] ELSE Unknown],
                 "patch", IF patch_match # <<>> THEN patch_match[1] ELSE <<>>,
                 patch_match # <<>>),
            "revision", IF revision_match # <<>> THEN revision_match[1] ELSE <<>>,
            revision_match # <<>>)

(***************************************************************************)
(* The parsers applied to listings (SpecHdb)                               *)
(***************************************************************************)
MaxLines == 2     \* lines of a listing after its header

\* "USER PID PPID %CPU VSZ RSS COMMAND", as HDB info prints it
PsHeader ==
    <<85, 83, 69, 82, 32, 80, 73, 68, 32, 80, 80, 73, 68, 32, 37, 67, 80, 85, 32, 86, 83, 90, 32, 82, 83, 83, 32, 67, 79, 77, 77, 65, 78, 68>>

\* "USER PID COMMAND", as ps -o user,pid,command prints it
PsHeaderShort ==
    <<85, 83, 69, 82, 32, 80, 73, 68, 32, 67, 79, 77, 77, 65, 78, 68>>

\* "hdbindexserver"
IndexServer ==
    <<104, 100, 98, 105, 110, 100, 101, 120, 115, 101, 114, 118, 101, 114>>

\* "hdbnameserver"
NameServer ==
    <<104, 100, 98, 110, 97, 109, 101, 115, 101, 114, 118, 101, 114>>

\* "d54adm 12 1 0.0 9 8 hdbindexserver -port 30015"
LineIndexServer ==
    <<100, 53, 52, 97, 100, 109, 32, 49, 50, 32, 49, 32, 48, 46, 48, 32, 57, 32, 56, 32, 104, 100, 98, 105, 110, 100, 101, 120, 115, 101, 114, 118, 101, 114, 32, 45, 112, 111, 114, 116, 32, 51, 48, 48, 49, 53>>

\* "d54adm 12 hdbindexserver -port 30015"
LineIndexServerShort ==
    <<100, 53, 52, 97, 100, 109, 32, 49, 50, 32, 104, 100, 98, 105, 110, 100, 101, 120, 115, 101, 114, 118, 101, 114, 32, 45, 112, 111, 114, 116, 32, 51, 48, 48, 49, 53>>

\* "d54adm 11 1 0.0 9 8 hdbnameserver -port 30001"
LineNameServer ==
    <<100, 53, 52, 97, 100, 109, 32, 49, 49, 32, 49, 32, 48, 46, 48, 32, 57, 32, 56, 32, 104, 100, 98, 110, 97, 109, 101, 115, 101, 114, 118, 101, 114, 32, 45, 112, 111, 114, 116, 32, 51, 48, 48, 48, 49>>

\* "d54adm 10 1 0.0 9 8 sapstart pf=/x"
LineSapstart ==
    <<100, 53, 52, 97, 100, 109, 32, 49, 48, 32, 49, 32, 48, 46, 48, 32, 57, 32, 56, 32, 115, 97, 112, 115, 116, 97, 114, 116, 32, 112, 102, 61, 47, 120>>

\* "d54adm 13 12 0.0 9 8 hdbindexserver -port 30015 -parent hdbnameserver"
LineIndexServerChild ==
    <<100, 53, 52, 97, 100, 109, 32, 49, 51, 32, 49, 50, 32, 48, 46, 48, 32, 57, 32, 56, 32, 104, 100, 98, 105, 110, 100, 101, 120, 115, 101, 114, 118, 101, 114, 32, 45, 112, 111, 114, 116, 32, 51, 48, 48, 49, 53, 32, 45, 112, 97, 114, 101, 110, 116, 32, 104, 100, 98, 110, 97, 109, 101, 115, 101, 114, 118, 101, 114>>

\* "hdbindexserver running" and " pid: 12", the standard format
LineStandard ==
    <<104, 100, 98, 105, 110, 100, 101, 120, 115, 101, 114, 118, 101, 114, 32, 114, 117, 110, 110, 105, 110, 103>>
LineDetail ==
    <<32, 112, 105, 100, 58, 32, 49, 50>>

PsLines ==
    {LineIndexServer, LineIndexServerShort, LineNameServer, LineSapstart,
     LineIndexServerChild}

HdbListings ==
    {JoinLines(<<h>> \o ls) : h \in {PsHeader, PsHeaderShort}, ls \in SeqsUpTo(PsLines, MaxLines)}
    \cup {JoinLines(ls) : ls \in SeqsUpTo(PsLines \cup {LineStandard, LineDetail}, MaxLines)}

\* "version: 2.00.045", "Patch Number:  0", "revision: 45.1", and two lines
\* without a value: "version:2" (no blank) and "revision: n/a"
VersionLines ==
    {<<118, 101, 114, 115, 105, 111, 110, 58, 32, 50, 46, 48, 48, 46, 48, 52, 53>>,
      <<80, 97, 116, 99, 104, 32, 78, 117, 109, 98, 101, 114, 58, 32, 32, 48>>,
      <<114, 101, 118, 105, 115, 105, 111, 110, 58, 32, 52, 53, 46, 49>>,
      <<118, 101, 114, 115, 105, 111, 110, 58, 50>>,
      <<114, 101, 118, 105, 115, 105, 111, 110, 58, 32, 110, 47, 97>>}

VersionTexts == {JoinLines(ls) : ls \in SeqsUpTo(VersionLines, MaxLines)}

Applied(c, value) ==
    Finish(c, [result |-> value, raised |-> FALSE, procs |-> <<>>, sessions |-> <<>>])

ParseHdbInfoOutput ==
    /\ call = Idle
    /\ \E output \in HdbListings :
          Applied([op |-> "parse_hdb_info_output", output |-> output],
                  parse_hdb_info_output(output))

ParseHdbVersionOutput ==
    /\ call = Idle
    /\ \E output \in VersionTexts :
          Applied([op |-> "parse_hdb_version_output", output |-> output],
                  parse_hdb_version_output(output))

NextHdb ==
    \/ ParseHdbInfoOutput
    \/ ParseHdbVersionOutput
    \/ NextRequest

SpecHdb == InitDf /\ [][NextHdb]_vars

(***************************************************************************)
(* Claims about the parsers of HDB output (checked under SpecHdb)          *)
(***************************************************************************)
IsInfoCall == call # Idle /\ call.op = "parse_hdb_info_output"

ListingLines == SplitOn(call.output, 10)

\* the listing starts with a header naming USER, PID and COMMAND
HasPsHeader ==
    /\ Contains(ListingLines[1], <<85, 83, 69, 82>>)
    /\ Contains(ListingLines[1], <<80, 73, 68>>)
    /\ Contains(ListingLines[1], <<67, 79, 77, 77, 65, 78, 68>>)

\* "-port 30015"
PortArgument == <<45, 112, 111, 114, 116, 32, 51, 48, 48, 49, 53>>

\* the row the claim expects
IndexServerRow(row) ==
    /\ row.name = IndexServer
    /\ row.status = <<114, 117, 110, 110, 105, 110, 103>>
    /\ row.port = Text(<<51, 48, 48, 49, 53>>)

\* the line runs hdbindexserver as its seventh or a later field, followed by
\* the fields -port and 30015, and from the seventh field on names no
\* hdbnameserver and has no other -port
IndexServerInCommand(line) ==
    LET parts == SplitWords(line)
    IN \E k \in 7 .. (Len(parts) - 2) :
          /\ Contains(parts[k], IndexServer)
          /\ parts[k + 1] = <<45, 112, 111, 114, 116>>
          /\ parts[k + 2] = <<51, 48, 48, 49, 53>>
          /\ \A j \in 7 .. Len(parts) :
                /\ ~Contains(parts[j], NameServer)
                /\ parts[j] = <<45, 112, 111, 114, 116>> => j = k + 1

\* C21 (as stated): a listing with a USER/PID/COMMAND header and a line that
\* contains hdbindexserver and -port 30015 gives a row hdbindexserver,
\* running, port 30015
C21_AnyPsLine ==
    (/\ IsInfoCall
     /\ HasPsHeader
     /\ \E i \in 2 .. Len(ListingLines) :
           /\ Contains(ListingLines[i], IndexServer)
           /\ Contains(ListingLines[i], PortArgument))
    => \E k \in DOMAIN ret.value : IndexServerRow(ret.value[k])

\* C21 (amended): the row is returned when the line has hdbindexserver -port
\* 30015 from its seventh field on (six columns before the command, as HDB
\* info prints them) and no hdbnameserver there
C21_LineWithSixColumns ==
    (/\ IsInfoCall
     /\ HasPsHeader
     /\ \E i \in 2 .. Len(ListingLines) : IndexServerInCommand(ListingLines[i]))
    => \E k \in DOMAIN ret.value : IndexServerRow(ret.value[k])

\* the HDB info listing of an index server on port 30015 was parsed
C21_Witness ==
    /\ IsInfoCall
    /\ ListingLines[1] = PsHeader
    /\ Len(ListingLines) >= 2 /\ ListingLines[2] = LineIndexServer
    /\ Len(ret.value) >= 1 /\ IndexServerRow(ret.value[1])

\* the three-column listing: the line is skipped
ShortLineSkipped ==
    /\ IsInfoCall
    /\ ListingLines[1] = PsHeaderShort
    /\ Len(ListingLines) >= 2 /\ ListingLines[2] = LineIndexServerShort
    /\ ret.value = <<>>

IsVersionCall == call # Idle /\ call.op = "parse_hdb_version_output"

VersionFields == {"version", "patch", "revision"}

\* the words after which the value of a field is looked for
FieldLabel(field) ==
    [version |-> <<<<118, 101, 114, 115, 105, 111, 110, 58>>>>,
     patch |-> <<<<112, 97, 116, 99, 104>>, <<110, 117, 109, 98, 101, 114, 58>>>>,
     revision |-> <<<<114, 101, 118, 105, 115, 105, 111, 110, 58>>>>][field]

\* C22: parse_hdb_version_output raises nothing, and every one of version,
\* patch and revision that the text does not give is in the result as
\* "Unknown"
C22_MissingFieldsUnknown ==
    IsVersionCall =>
        /\ ~ret.raised
        /\ \A f \in VersionFields :
              FieldSearch(call.output, FieldLabel(f)) = <<>> =>
                  (f \in DOMAIN ret.value /\ ret.value[f] = Unknown)

\* what does hold: nothing is raised, version is always there, and patch and
\* revision are there exactly when the text gives them
OnlyVersionDefaults ==
    IsVersionCall =>
        /\ ~ret.raised
        /\ "version" \in DOMAIN ret.value
        /\ \A f \in {"patch", "revision"} :
              f \in DOMAIN ret.value <=> FieldSearch(call.output, FieldLabel(f)) # <<>>

\* the empty text: only version comes back
EmptyVersionText ==
    /\ IsVersionCall
    /\ call.output = <<>>
    /\ ret.value = [version |-> Unknown]

(***************************************************************************)
(* check_hana_status (tools/hana_status.py)                                *)
(*                                                                         *)
(* poll is what the database host does during one status check: the        *)
(* outcome (an env of the executor) of the first "HDB info" and that of    *)
(* the four other spellings of the command tried when the first fails.     *)
(* A command that is an f-string is one word, the f-string.                *)
(***************************************************************************)
\* what a call leaves behind: the dict it returns and the subprocesses and
\* SSH clients it created
Outcome(res, ps, ss) == [result |-> res, raised |-> FALSE, procs |-> ps, sessions |-> ss]

\* the commands tried after "HDB info" has failed
StatusCommands(sid, instance_number) ==
    <<<<Fmt("/usr/sap/{0}/HDB{1}/HDB info", <<SidArg(Upper(sid)), StrArg(instance_number)>>)>>,
      <<Fmt("/hana/shared/{0}/hdbclient/HDB info", <<SidArg(Lower(sid))>>)>>,
      <<Fmt("source ~/.bashrc && HDB info", <<>>)>>,
      <<Fmt("source ~/.profile && HDB info", <<>>)>>>>

\* the loop over the commands: stops at the first with return code 0
RECURSIVE TryCommands(_, _, _)
TryCommands(sid, commands, env) ==
    IF commands = <<>> THEN [success |-> FALSE, output |-> Text(<<>>), procs |-> <<>>, sessions |-> <<>>]
    ELSE LET after(run, rest) ==
                 [rest EXCEPT !.procs = run.procs \o rest.procs,
                              !.sessions = run.sessions \o rest.sessions]
             next(run) ==
                 IF run.result.return_code = 0
                 THEN [success |-> TRUE, output |-> run.result.stdout,
                       procs |-> run.procs, sessions |-> run.sessions]
                 ELSE after(run, TryCommands(sid, Tail(commands), env))
         IN next(execute_command_as_sap_user(sid, "db", Head(commands), "dbadm", {60}, env))

\* the dict returned once a listing has been obtained
StatusFromListing(sid, instance_number, host, stdout, ps, ss) ==
    LET status(services) ==
            Outcome([status |-> "success", hana_status |-> services,
                     overall_status |->
                         IF services = <<>> THEN "stopped"
                         ELSE IF \E svc \in {NameServer, IndexServer} :
                                    \A k \in DOMAIN services : services[k].name # svc
                         THEN "partial"
                         ELSE "running",
                     instance_number |-> instance_number, sid |-> sid, host |-> host,
                     raw_output |-> stdout],
                    ps, ss)
    IN status(parse_hdb_info_output(stdout.text))

StatusError(msg) == [status |-> "error", message |-> msg]

\* the else branch: the other commands, then the two diagnostic commands
StatusFromOthers(sid, instance_number, host, first, tried) ==
    IF tried.success
    THEN StatusFromListing(sid, instance_number, host, tried.output,
                           first.procs \o tried.procs, first.sessions \o tried.sessions)
    ELSE LET diagnosed(list_result, check_result) ==
                 Outcome(StatusError(Fmt("Failed to get HANA status: All commands failed. Check if HDB command is available.", <<>>)),
                         first.procs \o tried.procs \o list_result.procs \o check_result.procs,
                         first.sessions \o tried.sessions \o list_result.sessions
                             \o check_result.sessions)
         IN diagnosed(execute_command_as_sap_user(sid, "db", <<Fmt("ls -la /usr/sap/", <<>>)>>,
                                                  "dbadm", {30}, Quiet),
                      execute_command_as_sap_user(sid, "db",
                                                  <<Fmt("which HDB || echo HDB not found", <<>>)>>,
                                                  "dbadm", {30}, Quiet))

\* from `if result["return_code"] == 0` on; first is what "HDB info" gave
StatusDecided(sid, instance_number, host, poll, first) ==
    IF first.result.return_code = 0
    THEN StatusFromListing(sid, instance_number, host, first.result.stdout,
                           first.procs, first.sessions)
    ELSE StatusFromOthers(sid, instance_number, host, first,
                          TryCommands(sid, StatusCommands(sid, instance_number), poll.other))

\* the try block once get_system_info has returned or raised
StatusChecked(sid, instance_number, host, poll, system_info) ==
    LET number == IF instance_number = "" /\ "instance_number" \in DOMAIN system_info.value
                  THEN system_info.value.instance_number ELSE instance_number
        target == IF host = "" /\ "hostname" \in DOMAIN system_info.value
                  THEN system_info.value.hostname ELSE host
    IN IF system_info.raised
       THEN Outcome(StatusError(Fmt("Failed to get HANA status: {0}",
                                    <<MsgArg(system_info.msg)>>)), <<>>, <<>>)
       ELSE StatusDecided(sid, number, target, poll,
                          execute_command_as_sap_user(sid, "db", <<Fmt("HDB info", <<>>)>>,
                                                      "dbadm", {}, poll.info))

check_hana_status(sid, instance_number, host, poll) ==
    StatusChecked(sid, instance_number, host, poll, get_system_info(sid, "db"))

(***************************************************************************)
(* Starting and stopping HANA (tools/hana_control.py)                      *)
(*                                                                         *)
(* world is what the database host does during the call: the outcome of    *)
(* the HDB start and HDB stop commands, and the polls (see                 *)
(* check_hana_status) met by the status checks that follow each; the last  *)
(* poll repeats.  Time is in seconds since _wait_for_status began.         *)
(***************************************************************************)
CheckSeconds == 1     \* seconds one status check takes
Interval == 5         \* interval = 5

ControlError(msg) == [status |-> "error", message |-> msg]

\* an exception leaving a function, with what the call created so far
Raised(e, ps, ss) == [result |-> None, raised |-> TRUE, exc |-> e, procs |-> ps, sessions |-> ss]

\* the return after the loop reads status_result, which is bound only once a
\* status check has returned
TimeoutReached(action, last, ps, ss) ==
    IF last = <<>>
    THEN Raised(Raise("UnboundLocalError",
                      Fmt("local variable 'status_result' referenced before assignment", <<>>)),
                ps, ss)
    ELSE Outcome(ControlError(Fmt("Timeout waiting for HANA to {0}. Last known status: {1}",
                                  <<StrArg(action), StrArg(Get(last[1], "status", "unknown"))>>)),
                 ps, ss)

\* the while loop of _wait_for_status from `elapsed` seconds on; last is
\* status_result as <<dict>>, or <<>> while unbound
RECURSIVE WaitLoop(_, _, _, _, _, _, _, _, _, _, _)
WaitLoop(sid, instance_number, host, expected_status, timeout, action, polls, elapsed, last, ps, ss) ==
    IF ~(elapsed < timeout)
    THEN TimeoutReached(action, last, ps, ss)
    ELSE LET observed(check) ==
                 IF check.result.status = expected_status
                 THEN Outcome([status |-> "success",
                               message |-> Fmt("HANA {0} completed successfully. Current status: {1}",
                                               <<StrArg(action), StrArg(check.result.status)>>)],
                              ps \o check.procs, ss \o check.sessions)
                 ELSE WaitLoop(sid, instance_number, host, expected_status, timeout, action,
                               IF Len(polls) > 1 THEN Tail(polls) ELSE polls,
                               elapsed + CheckSeconds + Interval, <<check.result>>,
                               ps \o check.procs, ss \o check.sessions)
         IN observed(check_hana_status(sid, instance_number, host, Head(polls)))

_wait_for_status(sid, instance_number, host, expected_status, timeout, action, polls) ==
    WaitLoop(sid, instance_number, host, expected_status, timeout, action,
             polls, 0, <<>>, <<>>, <<>>)

\* instance number and host from the configuration where not given:
\* the pair, or the exception of get_system_info
Located(sid, instance_number, host) ==
    LET filled(system_info) ==
            IF system_info.raised THEN system_info
            ELSE Return([instance_number |->
                             IF instance_number = ""
                             THEN Get(system_info.value, "instance_number", "00")
                             ELSE instance_number,
                         host |-> IF host = "" THEN Get(system_info.value, "hostname", "")
                                  ELSE host])
    IN IF instance_number # "" /\ host # ""
       THEN Return([instance_number |-> instance_number, host |-> host])
       ELSE filled(get_system_info(sid, "db"))

\* f"{hdb_path}/HDB start", f"{hdb_path}/HDB stop"
HdbCommand(sid, instance_number, verb) ==
    <<Fmt("/usr/sap/{0}/HDB{1}/HDB {2}",
          <<SidArg(Upper(sid)), StrArg(instance_number), StrArg(verb)>>)>>

\* the body shared by start_hana and stop_hana: the verb ("start", "stop"),
\* the participle of the messages and the status waited for differ
\* from `if result["status"] == "error"` on; run is what the HDB command gave
Commanded(sid, at, wait, timeout, verb, doing, expected_status, polls, run) ==
    LET caught(out) ==
            IF out.raised
            THEN Outcome(ControlError(Fmt("Error {0} HANA: {1}",
                                          <<StrArg(doing), MsgArg(out.exc.msg)>>)),
                         out.procs, out.sessions)
            ELSE out
        waited(w) == [w EXCEPT !.procs = run.procs \o w.procs,
                               !.sessions = run.sessions \o w.sessions]
    IN IF run.result.status = "error"
       THEN Outcome(ControlError(Fmt("Error {0} HANA: {1}",
                                     <<StrArg(doing), MsgArg(run.result.stderr)>>)),
                    run.procs, run.sessions)
       ELSE IF wait
       THEN caught(waited(_wait_for_status(sid, at.instance_number, at.host,
                                           expected_status, timeout, verb, polls)))
       ELSE Outcome([status |-> "success",
                     message |-> Fmt("HANA {0} command executed successfully for {1}",
                                     <<StrArg(verb), SidArg(sid)>>)],
                    run.procs, run.sessions)

\* the try block once instance number and host are known (at)
StartOrStopAt(sid, wait, timeout, verb, doing, expected_status, env, polls, at) ==
    IF at.raised
    THEN Outcome(ControlError(Fmt("Error {0} HANA: {1}",
                                  <<StrArg(doing), MsgArg(at.msg)>>)), <<>>, <<>>)
    ELSE IF at.value.host = ""
    THEN Outcome(ControlError(Fmt("Could not determine host for SID {0}",
                                  <<SidArg(sid)>>)), <<>>, <<>>)
    ELSE Commanded(sid, at.value, wait, timeout, verb, doing, expected_status, polls,
                   execute_command_as_sap_user(
                       sid, "db", HdbCommand(sid, at.value.instance_number, verb),
                       "dbadm", {}, env))

StartOrStop(sid, instance_number, host, wait, timeout, verb, doing, expected_status, env, polls) ==
    StartOrStopAt(sid, wait, timeout, verb, doing, expected_status, env, polls,
                  Located(sid, instance_number, host))

start_hana(sid, instance_number, host, wait, timeout, world) ==
    StartOrStop(sid, instance_number, host, wait, timeout, "start", "starting", "RUNNING",
                world.start, world.started)

stop_hana(sid, instance_number, host, wait, timeout, world) ==
    StartOrStop(sid, instance_number, host, wait, timeout, "stop", "stopping", "STOPPED",
                world.stop, world.stopped)

\* timeout/2, as the loop condition of _wait_for_status sees it: whole
\* seconds elapsed are below timeout/2 exactly when below its ceiling
Half(timeout) == (timeout + 1) \div 2

\* (mutant) the start follows whatever the stop returned
restart_hana_regardless(sid, instance_number, host, wait, timeout, world) ==
    LET started(stop_result, start_result) ==
            [start_result EXCEPT !.procs = stop_result.procs \o start_result.procs,
                                 !.sessions = stop_result.sessions \o start_result.sessions]
    IN started(stop_hana(sid, instance_number, host, TRUE, Half(timeout), world),
               start_hana(sid, instance_number, host, wait, Half(timeout), world))

\* from `if stop_result["status"] == "error"` on
RestartStopped(sid, at, wait, timeout, world, stop_result) ==
    LET started(start_result) ==
            [start_result EXCEPT !.procs = stop_result.procs \o start_result.procs,
                                 !.sessions = stop_result.sessions \o start_result.sessions]
    IN IF stop_result.result.status = "error" THEN stop_result
       ELSE started(start_hana(sid, at.instance_number, at.host, wait, Half(timeout), world))

\* the try block once instance number and host are known (at)
RestartAt(sid, wait, timeout, world, at) ==
    IF at.raised
    THEN Outcome(ControlError(Fmt("Error restarting HANA: {0}", <<MsgArg(at.msg)>>)),
                 <<>>, <<>>)
    ELSE IF at.value.host = ""
    THEN Outcome(ControlError(Fmt("Could not determine host for SID {0}",
                                  <<SidArg(sid)>>)), <<>>, <<>>)
    ELSE RestartStopped(sid, at.value, wait, timeout, world,
                        stop_hana(sid, at.value.instance_number, at.value.host, TRUE,
                                  Half(timeout), world))

restart_hana(sid, instance_number, host, wait, timeout, world) ==
    RestartAt(sid, wait, timeout, world, Located(sid, instance_number, host))

\* the try block inside the loop of _wait_for_status catches what a status
\* check raises; check_hana_status catches every Exception itself, so that
\* handler has nothing to catch and is not part of WaitLoop.

\* the permission an action needs
RequiredPermission(action) ==
    [start |-> "HANA_START", stop |-> "HANA_STOP", restart |-> "HANA_RESTART"][action]

\* "start", "stop", "restart" as the strings the dispatch compares with
ActionNames ==
    {[text |-> <<115, 116, 97, 114, 116>>, name |-> "start"],
     [text |-> <<115, 116, 111, 112>>, name |-> "stop"],
     [text |-> <<114, 101, 115, 116, 97, 114, 116>>, name |-> "restart"]}

\* a Python list (the other container auth contexts carry permissions in)
PyListOf(items) == [list |-> items]
IsPyList(v) == DOMAIN v = {"list"}

\* (mutant) the permission check left out
manage_hana_system_unchecked(sid, instance_number, host, action, auth_context, wait, timeout, world) ==
    LET lowered == {a \in ActionNames : a.text = Lower(action)}
        name == (CHOOSE a \in lowered : TRUE).name
    IN IF lowered = {}
       THEN Outcome(ControlError(Fmt("Invalid action. Use 'start', 'stop', or 'restart'", <<>>)),
                    <<>>, <<>>)
       ELSE IF name = "start" THEN start_hana(sid, instance_number, host, wait, timeout, world)
       ELSE IF name = "stop" THEN stop_hana(sid, instance_number, host, wait, timeout, world)
       ELSE restart_hana(sid, instance_number, host, wait, timeout, world)

\* the dispatch on the action once instance number and host are known (at)
ManageAt(sid, name, wait, timeout, world, at) ==
    IF at.raised
    THEN Outcome(ControlError(Fmt("Error retrieving system information for SID {0}: {1}",
                                  <<SidArg(sid), MsgArg(at.msg)>>)), <<>>, <<>>)
    ELSE IF at.value.host = ""
    THEN Outcome(ControlError(Fmt("Could not determine host for SID {0}",
                                  <<SidArg(sid)>>)), <<>>, <<>>)
    ELSE IF name = "start"
    THEN start_hana(sid, at.value.instance_number, at.value.host, wait, timeout, world)
    ELSE IF name = "stop"
    THEN stop_hana(sid, at.value.instance_number, at.value.host, wait, timeout, world)
    ELSE restart_hana(sid, at.value.instance_number, at.value.host, wait, timeout, world)

\* action is <<>> when not given
manage_hana_system(sid, instance_number, host, action, auth_context, wait, timeout, world) ==
    LET lowered == {a \in ActionNames : a.text = Lower(action)}
        name == (CHOOSE a \in lowered : TRUE).name
        permissions == Get(auth_context, "permissions", EmptyDict)
    IN IF lowered = {}
       THEN Outcome(ControlError(Fmt("Invalid action. Use 'start', 'stop', or 'restart'", <<>>)),
                    <<>>, <<>>)
       ELSE IF DOMAIN auth_context # {} /\ IsPyList(permissions)
       THEN \* .get on a list: AttributeError, caught by the outer handler
            Outcome(ControlError(Fmt("Error managing HANA system: {0}",
                                     <<MsgArg(Fmt("'list' object has no attribute 'get'", <<>>))>>)),
                    <<>>, <<>>)
       ELSE IF /\ DOMAIN auth_context # {}
               /\ ~Get(permissions, RequiredPermission(name), FALSE)
               /\ "ADMIN" \notin Get(auth_context, "roles", {})
       THEN Outcome(ControlError(Fmt("Permission denied: {0} permission required",
                                     <<StrArg(RequiredPermission(name))>>)), <<>>, <<>>)
       ELSE ManageAt(sid, name, wait, timeout, world, Located(sid, instance_number, host))

(***************************************************************************)
(* The HANA control tools as operations (SpecHana)                         *)
(***************************************************************************)
MaxPolls == 2     \* status checks whose outcome differs, per wait

\* the timeouts a caller passes: 6 seconds go by per status check
WaitTimeouts == {-6, 0, 6, 12}

\* HDB info lists name server and index server
InfoRunning ==
    [Quiet EXCEPT !.out = 
        <<85, 83, 69, 82, 32, 80, 73, 68, 32, 80, 80, 73, 68, 32, 37, 67, 80, 85, 32, 86, 83, 90, 32, 82, 83, 83, 32, 67, 79, 77, 77, 65, 78, 68, 10, 100, 53, 52, 97, 100, 109, 32, 49, 49, 32, 49, 32, 48, 46, 48, 32, 57, 32, 56, 32, 104, 100, 98, 110, 97, 109, 101, 115, 101, 114, 118, 101, 114, 10, 100, 53, 52, 97, 100, 109, 32, 49, 50, 32, 49, 32, 48, 46, 48, 32, 57, 32, 56, 32, 104, 100, 98, 105, 110, 100, 101, 120, 115, 101, 114, 118, 101, 114, 32, 45, 112, 111, 114, 116, 32, 51, 48, 48, 49, 53, 10>>]

\* HDB info prints nothing: no process of the instance
InfoStopped == Quiet

\* the command is not found
InfoFailed == [Quiet EXCEPT !.rc = 1]

Polls ==
    {[info |-> InfoRunning, other |-> InfoFailed],
     [info |-> InfoStopped, other |-> InfoFailed],
     [info |-> InfoFailed, other |-> InfoFailed],
     [info |-> InfoFailed, other |-> InfoRunning]}

PollSeqs == SeqsUpTo(Polls, MaxPolls) \ {<<>>}

\* HDB start / HDB stop: succeeds, or exits with status 1
CommandEnvs == {Quiet, [Quiet EXCEPT !.rc = 1]}

\* the system D54 with a dbadm user, or without SAP users; or no file
HanaConfigs ==
    {ExecConfig([dbadm |-> [username |-> "hdbadm", password |-> "pw2"]], SshPassword, FALSE),
     ExecConfig(EmptyDict, SshPassword, FALSE),
     Unreadable}

HanaWorlds(envs, polls) ==
    [start : envs, stop : envs, started : polls, stopped : polls]

\* the database answers, running, to every command and check
Steady == <<[info |-> InfoRunning, other |-> InfoFailed]>>

HanaAuthContexts ==
    {EmptyDict,
     [permissions |-> [HANA_START |-> TRUE], roles |-> {}],
     [permissions |-> EmptyDict, roles |-> {"ADMIN"}],
     [permissions |-> [HANA_VIEW |-> TRUE], roles |-> {"OPERATOR"}],
     [permissions |-> PyListOf(<<"HANA_START">>), roles |-> {"OPERATOR"},
      authenticated |-> TRUE]}

\* "start", "STOP", "Restart", "status", and no action
Actions ==
    {<<115, 116, 97, 114, 116>>, <<83, 84, 79, 80>>, <<82, 101, 115, 116, 97, 114, 116>>, <<115, 116, 97, 116, 117, 115>>, <<>>}

StartHana ==
    /\ call = Idle
    /\ \E wait \in BOOLEAN, timeout \in WaitTimeouts,
          world \in HanaWorlds(CommandEnvs, {Steady}) \cup HanaWorlds({Quiet}, PollSeqs) :
          /\ world.stop = Quiet /\ world.stopped = Steady
          /\ Finish([op |-> "start_hana", sid |-> SidD54, wait |-> wait,
                     timeout |-> timeout, world |-> world],
                    start_hana(SidD54, "00", "10.0.0.5", wait, timeout, world))

StopHana ==
    /\ call = Idle
    /\ \E wait \in BOOLEAN, timeout \in WaitTimeouts,
          world \in HanaWorlds(CommandEnvs, {Steady}) \cup HanaWorlds({Quiet}, PollSeqs) :
          /\ world.start = Quiet /\ world.started = Steady
          /\ Finish([op |-> "stop_hana", sid |-> SidD54, wait |-> wait,
                     timeout |-> timeout, world |-> world],
                    stop_hana(SidD54, "", "", wait, timeout, world))

RestartHana ==
    /\ call = Idle
    /\ \E wait \in BOOLEAN, timeout \in {0, 12},
          world \in HanaWorlds(CommandEnvs, {Steady}) \cup HanaWorlds({Quiet}, {<<p>> : p \in Polls}) :
          Finish([op |-> "restart_hana", sid |-> SidD54, wait |-> wait,
                  timeout |-> timeout, world |-> world],
                 restart_hana(SidD54, "00", "10.0.0.5", wait, timeout, world))

ManageHanaSystem ==
    /\ call = Idle
    /\ \E sid \in {SidD54, SidXXX}, action \in Actions, auth_context \in HanaAuthContexts,
          wait \in BOOLEAN, given \in BOOLEAN :
          Finish([op |-> "manage_hana_system", sid |-> sid, action |-> action,
                  auth_context |-> auth_context, wait |-> wait, timeout |-> 6],
                 manage_hana_system(sid, IF given THEN "00" ELSE "",
                                    IF given THEN "10.0.0.5" ELSE "", action, auth_context,
                                    wait, 6,
                                    [start |-> Quiet, stop |-> Quiet,
                                     started |-> Steady, stopped |-> Steady]))

WaitForStatus ==
    /\ call = Idle
    /\ \E expected_status \in {"RUNNING", "STOPPED"}, timeout \in WaitTimeouts,
          polls \in PollSeqs :
          Finish([op |-> "_wait_for_status", sid |-> SidD54,
                  expected_status |-> expected_status, timeout |-> timeout, polls |-> polls],
                 _wait_for_status(SidD54, "00", "10.0.0.5", expected_status, timeout,
                                  IF expected_status = "RUNNING" THEN "start" ELSE "stop",
                                  polls))

(***************************************************************************)
(* trigger_hana_backup (tools/hana_backup.py), for backups of the system   *)
(* database (use_system_db=True), up to the backup command                 *)
(***************************************************************************)
BackupError(msg) == [status |-> "error", message |-> msg]

\* what `except Exception` of trigger_hana_backup returns
Unexpected(e, ps, ss) ==
    Outcome(BackupError(Fmt("Unexpected error: {0}", <<MsgArg(e.msg)>>)), ps, ss)

\* get_system_info(sid, auth_context): the auth context arrives as the
\* component; None is no component of any system, a dict cannot be looked up
SystemInfoByAuth(sid, auth_context) ==
    IF DOMAIN auth_context # {}
    THEN Raise("TypeError", Fmt("unhashable type: 'dict'", <<>>))
    ELSE get_system_info(sid, "None")

\* "RUNNING" in hana_status.get("system_status", "")
SaysRunning(hana_status) ==
    /\ "system_status" \in DOMAIN hana_status
    /\ Contains(hana_status.system_status, <<82, 85, 78, 78, 73, 78, 71>>)

\* the dict returned and what the call created, with the dict of the status
\* check where one was made (checked, <<>> otherwise)
trigger_hana_backup(sid, instance_number, host, backup_type, auth_context, poll) ==
    LET with(outcome, checked) ==
            [result |-> outcome.result, raised |-> FALSE, procs |-> outcome.procs,
             sessions |-> outcome.sessions, checked |-> checked]
        \* execute_command_as_sap_user(command=, sid=, host=, auth_context=):
        \* the function has no parameters host and auth_context
        backup(ps, ss) ==
            Unexpected(Raise("TypeError",
                             Fmt("execute_command_as_sap_user() got an unexpected keyword argument 'host'", <<>>)),
                       ps, ss)
        decided(check) ==
            IF check.result.status # "success" \/ ~SaysRunning(check.result)
            THEN with(Outcome(BackupError(
                                  Fmt("HANA database is not running. Current status: {0}",
                                      <<StrArg(Get(check.result, "system_status", "UNKNOWN"))>>)),
                              check.procs, check.sessions),
                      <<check.result>>)
            ELSE with(backup(check.procs, check.sessions), <<check.result>>)
        awaited(system_info) ==
            IF system_info.raised THEN with(Unexpected(system_info, <<>>, <<>>), <<>>)
            ELSE with(Unexpected(Raise("TypeError",
                                       Fmt("object dict can't be used in 'await' expression", <<>>)),
                                 <<>>, <<>>), <<>>)
    IN IF backup_type \notin {"COMPLETE", "INCREMENTAL", "DIFFERENTIAL", "LOG"}
       THEN with(Outcome(BackupError(Fmt("Invalid backup type: {0}. Must be one of {1}",
                                         <<StrArg(backup_type),
                                           StrArg("['COMPLETE', 'INCREMENTAL', 'DIFFERENTIAL', 'LOG']")>>)),
                         <<>>, <<>>), <<>>)
       ELSE IF instance_number = "" \/ host = ""
       THEN awaited(SystemInfoByAuth(sid, auth_context))
       ELSE decided(check_hana_status(sid, instance_number, host, poll))

TriggerHanaBackup ==
    /\ call = Idle
    /\ \E backup_type \in {"COMPLETE", "LOG", "FULL"}, given \in BOOLEAN,
          auth_context \in HanaAuthContexts, poll \in Polls :
          LET done(outcome) ==
                  Finish([op |-> "trigger_hana_backup", sid |-> SidD54,
                          backup_type |-> backup_type, given |-> given,
                          auth_context |-> auth_context, checked |-> outcome.checked],
                         outcome)
          IN done(trigger_hana_backup(SidD54, IF given THEN "00" ELSE "",
                                      IF given THEN "10.0.0.5" ELSE "", backup_type,
                                      auth_context, poll))

InitHana ==
    /\ configFile \in HanaConfigs
    /\ call = Idle
    /\ ret = None
    /\ procs = <<>>
    /\ sessions = <<>>
    /\ hosts = None
    /\ azure = None
    /\ connections = None

NextHana ==
    \/ StartHana
    \/ StopHana
    \/ RestartHana
    \/ ManageHanaSystem
    \/ WaitForStatus
    \/ TriggerHanaBackup
    \/ NextRequest

SpecHana == InitHana /\ [][NextHana]_vars

(***************************************************************************)
(* Claims about the HANA control tools                                     *)
(***************************************************************************)
\* what a status check finds under a poll: "running", "partial", "stopped",
\* or "" when the check fails
Observed(poll) ==
    LET state(check) == Get(check.result, "overall_status", "")
    IN state(check_hana_status(SidD54, "00", "10.0.0.5", poll))

\* the k-th status check of a wait, made 6(k-1) seconds into it
PollAt(polls, k) == polls[IF k < Len(polls) THEN k ELSE Len(polls)]

\* a status check made before the timeout finds the database in that state
ObservedInTime(polls, timeout, state) ==
    \E k \in 1..(MaxPolls + 1) :
        /\ (k - 1) * (CheckSeconds + Interval) < timeout
        /\ Observed(PollAt(polls, k)) = state

\* the configuration names the dbadm user of D54
HasDbUser ==
    configFile = ExecConfig([dbadm |-> [username |-> "hdbadm", password |-> "pw2"]],
                            SshPassword, FALSE)

\* the call waited for the state: _wait_for_status itself, or start_hana /
\* stop_hana with wait=True after a command that went through
WaitedFor(state) ==
    \/ /\ call.op = "_wait_for_status"
       /\ call.expected_status = (IF state = "running" THEN "RUNNING" ELSE "STOPPED")
       /\ ObservedInTime(call.polls, call.timeout, state)
    \/ /\ call.op = "start_hana" /\ state = "running"
       /\ call.wait /\ HasDbUser /\ call.world.start = Quiet
       /\ ObservedInTime(call.world.started, call.timeout, state)
    \/ /\ call.op = "stop_hana" /\ state = "stopped"
       /\ call.wait /\ HasDbUser /\ call.world.stop = Quiet
       /\ ObservedInTime(call.world.stopped, call.timeout, state)

\* C23: when a status check made before the timeout finds the database in
\* the expected state (running after a start, stopped after a stop), the wait
\* returns status "success" rather than the timeout error.
C23_SuccessWhenObserved ==
    \A state \in {"running", "stopped"} :
        WaitedFor(state) => ret = Return(ret.value) /\ ret.value.status = "success"

\* C27: _wait_for_status never raises; when it does not return success it
\* returns a result with status "error" and a "Timeout waiting" message,
\* also for a timeout of zero or less.
C27_ReturnsTimeoutError ==
    call.op = "_wait_for_status" =>
        /\ ret.raised = FALSE
        /\ \/ ret.value.status = "success"
           \/ /\ ret.value.status = "error"
              /\ ret.value.message.fmt
                     = "Timeout waiting for HANA to {0}. Last known status: {1}"

\* a wait whose deadline has passed before the first status check
NoTimeLeft == call.op = "_wait_for_status" /\ call.timeout <= 0 /\ ret.raised

\* a session ran the HDB command with that verb as the database user
HdbCommandRun(session, verb) ==
    \E j \in DOMAIN session.commands :
        /\ Len(session.commands[j]) = 4
        /\ session.commands[j][4] = HdbCommand(SidD54, "00", verb)[1]

StartCommandRun == \E i \in DOMAIN sessions : HdbCommandRun(sessions[i], "start")
StopCommandRun == \E i \in DOMAIN sessions : HdbCommandRun(sessions[i], "stop")

\* the stop step of the restart that has returned
StopStep ==
    stop_hana(call.sid, "00", "10.0.0.5", TRUE, Half(call.timeout), call.world)

\* C26: restart_hana runs the HANA start command only after the stop step has
\* returned a result that is no error; when the stop step returns an error,
\* restart_hana returns that error and runs no start command.
C26_StartOnlyAfterStop ==
    call.op = "restart_hana" =>
        LET ordered(stop_result) ==
                IF stop_result.result.status = "error"
                THEN ret = Return(stop_result.result) /\ ~StartCommandRun
                ELSE \A i \in DOMAIN sessions :
                         HdbCommandRun(sessions[i], "start") =>
                             /\ i > Len(stop_result.sessions)
                             /\ \E j \in 1..(i - 1) : HdbCommandRun(sessions[j], "stop")
        IN ordered(StopStep)

\* a restart whose stop command ran and whose stop step returned an error
C26_Witness ==
    /\ call.op = "restart_hana"
    /\ StopCommandRun
    /\ StopStep.result.status = "error"
    /\ ret = Return(StopStep.result)
    /\ ~StartCommandRun

\* the action is none of start, stop, restart, compared ignoring case
InvalidAction(action) == \A a \in ActionNames : a.text # Lower(action)

\* the auth context is supplied and has neither the permission nor ADMIN
Lacking(auth_context, permission) ==
    LET permissions == Get(auth_context, "permissions", EmptyDict)
    IN /\ DOMAIN auth_context # {}
       /\ IF IsPyList(permissions)
          THEN \A k \in DOMAIN permissions.list : permissions.list[k] # permission
          ELSE ~Get(permissions, permission, FALSE)
       /\ "ADMIN" \notin Get(auth_context, "roles", {})

Denied(action, auth_context) ==
    \E a \in ActionNames :
        a.text = Lower(action) /\ Lacking(auth_context, RequiredPermission(a.name))

\* C30: manage_hana_system runs no command on any host and returns status
\* "error" when the action is none of start, stop, restart (ignoring case),
\* or when the auth context supplied lacks both the permission of the action
\* and the ADMIN role.
C30_NoCommandWhenRefused ==
    (/\ call.op = "manage_hana_system"
     /\ InvalidAction(call.action) \/ Denied(call.action, call.auth_context))
        => /\ ret = Return(ret.value)
           /\ ret.value.status = "error"
           /\ procs = <<>>
           /\ sessions = <<>>

\* a start of D54 refused to an operator who may only view
C30_Witness ==
    /\ call.op = "manage_hana_system"
    /\ call.sid = SidD54
    /\ HasDbUser
    /\ ~InvalidAction(call.action)
    /\ Denied(call.action, call.auth_context)
    /\ ret.value.message.fmt = "Permission denied: {0} permission required"
    /\ sessions = <<>>

\* the status check of a backup call found the database running
CheckedRunning ==
    /\ call.op = "trigger_hana_backup"
    /\ call.backup_type \in {"COMPLETE", "INCREMENTAL", "DIFFERENTIAL", "LOG"}
    /\ call.checked # <<>>
    /\ call.checked[1].status = "success"
    /\ call.checked[1].overall_status = "running"

\* C25: trigger_hana_backup with a valid backup type, whose status check
\* succeeds and finds the database running, does not return "HANA database
\* is not running" but goes on to the backup command.
C25_BackupWhenRunning ==
    CheckedRunning =>
        ret.value.message.fmt # "HANA database is not running. Current status: {0}"

(***************************************************************************)
(* Azure VM operations (tools/azure_tools/vm_operations.py)                *)
(*                                                                         *)
(* azure is [vm, disks, begun]: the power state and data disks of the one  *)
(* VM of the resource group, the names of its managed disks, and the       *)
(* long-running operations begun.  The calls name the VM, the resource     *)
(* group and the subscription and obtain a credential.  world is what      *)
(* Azure does during a call: whether it refuses the operation, and how     *)
(* many seconds after the operation began its poller is done (done_at) and *)
(* the instance view shows the new power state (shown_at).                 *)
(***************************************************************************)
TheVm == "vm-d54-db"
TheGroup == "rg-sap"

SleepSeconds == 10     \* await asyncio.sleep(10)
LunCount == 64         \* range(64)

AzureError(msg) == [status |-> "error", message |-> msg]

\* auth_context and "permissions" in auth_context, and neither the
\* permission nor the ADMIN role
AzureDenied(auth_context, permission) ==
    /\ "permissions" \in DOMAIN auth_context
    /\ ~Get(auth_context.permissions, permission, FALSE)
    /\ "ADMIN" \notin Get(auth_context, "roles", {})

\* "VM running", "VM starting", "VM stopped", "VM stopping",
\* "VM deallocated", "VM deallocating"
VmRunning == <<86, 77, 32, 114, 117, 110, 110, 105, 110, 103>>
VmStarting == <<86, 77, 32, 115, 116, 97, 114, 116, 105, 110, 103>>
VmStopped == <<86, 77, 32, 115, 116, 111, 112, 112, 101, 100>>
VmStopping == <<86, 77, 32, 115, 116, 111, 112, 112, 105, 110, 103>>
VmDeallocated == <<86, 77, 32, 100, 101, 97, 108, 108, 111, 99, 97, 116, 101, 100>>
VmDeallocating == <<86, 77, 32, 100, 101, 97, 108, 108, 111, 99, 97, 116, 105, 110, 103>>

\* "running"; "stopped", "deallocated": the words searched in the power state
RunningWords == {<<114, 117, 110, 110, 105, 110, 103>>}
StoppedWords == {<<115, 116, 111, 112, 112, 101, 100>>, <<100, 101, 97, 108, 108, 111, 99, 97, 116, 101, 100>>}

\* any of the words in current_power_state.lower()
InPowerState(words, power_state) ==
    \E w \in words : Contains(Lower(power_state), w)

\* get_vm_status without auth context, of the VM in that power state; of the
\* details returned, those the callers read
get_vm_status(vm_name, resource_group, power_state) ==
    IF vm_name # TheVm
    THEN AzureError(Fmt("VM not found: {0}", <<StrArg(vm_name)>>))
    ELSE [status |-> "success",
          vm_status |-> [name |-> vm_name, resource_group |-> resource_group,
                         power_state |-> power_state]]

\* the power state t seconds after the operation began
StateAt(world, during, after, t) == IF t >= world.shown_at THEN after ELSE during

\* the wait loop of start_vm and stop_vm from t seconds on: the dict
\* returned and the time of the return
RECURSIVE WaitForVm(_, _, _, _, _, _, _, _, _)
WaitForVm(vm_name, resource_group, timeout, world, during, after, words, texts, t) ==
    IF ~(t < timeout) \/ world.done_at <= t
    THEN \* the loop condition fails, or `break`: both reach the same return
         [result |-> AzureError(Fmt(texts.timeout, <<StrArg(vm_name)>>)), at |-> t]
    ELSE LET checked(status_result) ==
                 IF /\ status_result.status = "success"
                    /\ InPowerState(words, status_result.vm_status.power_state)
                 THEN [result |-> [status |-> "success",
                                   message |-> Fmt(texts.done, <<StrArg(vm_name)>>),
                                   vm_status |-> status_result.vm_status],
                       at |-> t + SleepSeconds]
                 ELSE WaitForVm(vm_name, resource_group, timeout, world, during, after,
                                words, texts, t + SleepSeconds)
         IN checked(get_vm_status(vm_name, resource_group,
                                  StateAt(world, during, after, t + SleepSeconds)))

\* the dict returned and the resources afterwards
AzureOutcome(res, az) == [result |-> res, raised |-> FALSE, azure |-> az]

\* the body shared by start_vm and stop_vm
StartOrStopVm(vm_name, resource_group, auth_context, wait, timeout, world, az, permission, operation, during, after, words, texts) ==
    LET begun == [az EXCEPT !.begun = Append(@, [op |-> operation, name |-> vm_name])]
        at(t) == [begun EXCEPT !.vm.power_state = StateAt(world, during, after, t)]
        waited(w) == AzureOutcome(w.result, at(w.at))
        status(vm_status) ==
            IF vm_status.status = "error" THEN AzureOutcome(vm_status, az)
            ELSE IF InPowerState(words, vm_status.vm_status.power_state)
            THEN AzureOutcome([status |-> "success",
                               message |-> Fmt(texts.already, <<StrArg(vm_name)>>)], az)
            ELSE IF world.refused
            THEN AzureOutcome(AzureError(Fmt(texts.error,
                                             <<MsgArg(Fmt("(OperationNotAllowed)", <<>>))>>)), az)
            ELSE IF wait
            THEN waited(WaitForVm(vm_name, resource_group, timeout, world, during, after,
                                  words, texts, 0))
            ELSE AzureOutcome([status |-> "success",
                               message |-> Fmt(texts.initiated, <<StrArg(vm_name)>>)], at(0))
    IN IF AzureDenied(auth_context, permission)
       THEN AzureOutcome(AzureError(Fmt(texts.denied, <<>>)), az)
       ELSE status(get_vm_status(vm_name, resource_group, az.vm.power_state))

start_vm(vm_name, resource_group, auth_context, wait, timeout, world, az) ==
    StartOrStopVm(vm_name, resource_group, auth_context, wait, timeout, world, az,
                  "AZURE_START", "begin_start", VmStarting, VmRunning, RunningWords,
                  [denied |-> "Permission denied: AZURE_START permission required",
                   already |-> "VM {0} is already running",
                   done |-> "VM {0} started successfully",
                   timeout |-> "Timeout waiting for VM {0} to start",
                   initiated |-> "VM {0} start operation initiated",
                   error |-> "Error starting VM: {0}"])

stop_vm(vm_name, resource_group, auth_context, deallocate, wait, timeout, world, az) ==
    StartOrStopVm(vm_name, resource_group, auth_context, wait, timeout, world, az,
                  "AZURE_STOP",
                  IF deallocate THEN "begin_deallocate" ELSE "begin_power_off",
                  IF deallocate THEN VmDeallocating ELSE VmStopping,
                  IF deallocate THEN VmDeallocated ELSE VmStopped,
                  StoppedWords,
                  [denied |-> "Permission denied: AZURE_STOP permission required",
                   already |-> "VM {0} is already stopped",
                   done |-> "VM {0} stopped successfully",
                   timeout |-> "Timeout waiting for VM {0} to stop",
                   initiated |-> "VM {0} stop operation initiated",
                   error |-> "Error stopping VM: {0}"])

\* next((i for i in range(64) if i not in used_luns), None), as a set
FreeLun(data_disks) ==
    LET used_luns == {data_disks[k].lun : k \in DOMAIN data_disks}
        free == (0 .. (LunCount - 1)) \ used_luns
    IN IF free = {} THEN {}
       ELSE {CHOOSE i \in free : \A j \in free : i <= j}

\* disk_name is <<>> and lun is {} when not given; world.refused names the
\* operation Azure refuses ("create", "update") or is "none"
add_disk(vm_name, resource_group, disk_name, lun, auth_context, world, az) ==
    LET data_disks == az.vm.data_disks
        created == [az EXCEPT !.disks = @ \cup {disk_name},
                              !.begun = Append(@, [op |-> "begin_create_or_update",
                                                   name |-> disk_name])]
        attached(n) ==
            [created EXCEPT !.vm.data_disks = Append(@, [lun |-> n, name |-> disk_name]),
                            !.begun = Append(@, [op |-> "begin_update", name |-> vm_name])]
        attach(n) ==
            IF \E k \in DOMAIN data_disks : data_disks[k].lun = n
            THEN AzureOutcome(AzureError(Fmt("LUN {0} is already in use.", <<IntArg(n)>>)),
                              created)
            ELSE IF world.refused = "update"
            THEN AzureOutcome(AzureError(Fmt("Failed to add disk: {0}",
                                             <<MsgArg(Fmt("(OperationNotAllowed)", <<>>))>>)),
                              created)
            ELSE AzureOutcome([status |-> "success",
                               message |-> Fmt("Successfully added disk {0} to VM {1}",
                                               <<SidArg(disk_name), StrArg(vm_name)>>),
                               disk_details |-> [name |-> disk_name, lun |-> n]],
                              attached(n))
        assigned(luns) ==
            IF luns = {}
            THEN AzureOutcome(AzureError(Fmt("No available LUN found. VM has maximum number of disks attached.", <<>>)),
                              created)
            ELSE attach(CHOOSE n \in luns : TRUE)
    IN IF AzureDenied(auth_context, "AZURE_MANAGE")
       THEN AzureOutcome(AzureError(Fmt("Permission denied: AZURE_MANAGE permission required",
                                        <<>>)), az)
       ELSE IF vm_name # TheVm
       THEN AzureOutcome(AzureError(Fmt("Resource not found: {0}",
                                        <<MsgArg(Fmt("(ResourceNotFound)", <<>>))>>)), az)
       ELSE IF disk_name = <<>>
       THEN \* int(time.time()): the module does not import time
            AzureOutcome(AzureError(Fmt("Unexpected error: {0}",
                                        <<MsgArg(Fmt("name 'time' is not defined", <<>>))>>)), az)
       ELSE IF world.refused = "create"
       THEN AzureOutcome(AzureError(Fmt("Failed to add disk: {0}",
                                        <<MsgArg(Fmt("(OperationNotAllowed)", <<>>))>>)), az)
       ELSE assigned(IF lun = {} THEN FreeLun(data_disks) ELSE lun)

(***************************************************************************)
(* The VM operations as calls (SpecAzure)                                  *)
(***************************************************************************)
MaxOps == 2     \* long-running operations begun, at most

\* seconds after the operation began: at once, by the first or second
\* status check, or after every timeout
VmTimes == {0, SleepSeconds, 2 * SleepSeconds, 4 * SleepSeconds}
VmTimeouts == {0, SleepSeconds, 3 * SleepSeconds}
VmWorlds == [done_at : VmTimes, shown_at : VmTimes, refused : BOOLEAN]

VmNames == {TheVm, "vm-gone"}

AzureAuthContexts ==
    {EmptyDict,
     [permissions |-> [AZURE_VIEW |-> TRUE], roles |-> {}],
     [permissions |-> EmptyDict, roles |-> {"ADMIN"}]}

\* the disks "d00" .. "d63" at LUN 0 .. 63, the first n of them
DiskNamed(i) == <<100, 48 + (i \div 10), 48 + (i % 10)>>
FirstDisks(n) == [k \in 1 .. n |-> [lun |-> k - 1, name |-> DiskNamed(k - 1)]]

\* "d00", "new", and no name
DiskNames == {DiskNamed(0), <<110, 101, 119>>, <<>>}
Luns == {{}, {0}, {1}}

AzureStates ==
    {[vm |-> [power_state |-> power_state, data_disks |-> FirstDisks(n)],
      disks |-> {DiskNamed(k) : k \in 0 .. (n - 1)},
      begun |-> <<>>] :
         power_state \in {VmRunning, VmDeallocated}, n \in {0, 1, LunCount}}

\* a VM operation ran: the call with the resources before it, what it
\* returned, and the resources after it
FinishAzure(c, outcome) ==
    /\ call' = [c EXCEPT !.before = azure]
    /\ ret' = Return(outcome.result)
    /\ azure' = outcome.azure
    /\ UNCHANGED <<configFile, procs, sessions, hosts, connections>>

StartVm ==
    /\ call = Idle
    /\ Len(azure.begun) < MaxOps
    /\ \E vm_name \in VmNames, auth_context \in AzureAuthContexts, wait \in BOOLEAN,
          timeout \in VmTimeouts, world \in VmWorlds :
          FinishAzure([op |-> "start_vm", vm_name |-> vm_name, auth_context |-> auth_context,
                       wait |-> wait, timeout |-> timeout, world |-> world, before |-> None],
                      start_vm(vm_name, TheGroup, auth_context, wait, timeout, world, azure))

StopVm ==
    /\ call = Idle
    /\ Len(azure.begun) < MaxOps
    /\ \E vm_name \in VmNames, auth_context \in AzureAuthContexts, deallocate \in BOOLEAN,
          wait \in BOOLEAN, timeout \in VmTimeouts, world \in VmWorlds :
          FinishAzure([op |-> "stop_vm", vm_name |-> vm_name, auth_context |-> auth_context,
                       deallocate |-> deallocate, wait |-> wait, timeout |-> timeout,
                       world |-> world, before |-> None],
                      stop_vm(vm_name, TheGroup, auth_context, deallocate, wait, timeout,
                              world, azure))

AddDisk ==
    /\ call = Idle
    /\ Len(azure.begun) < MaxOps
    /\ \E vm_name \in VmNames, disk_name \in DiskNames, lun \in Luns,
          auth_context \in AzureAuthContexts, refused \in {"none", "create", "update"} :
          FinishAzure([op |-> "add_disk", vm_name |-> vm_name, disk_name |-> disk_name,
                       lun |-> lun, auth_context |-> auth_context, refused |-> refused,
                       before |-> None],
                      add_disk(vm_name, TheGroup, disk_name, lun, auth_context,
                               [refused |-> refused], azure))

InitAzure ==
    /\ configFile = Unreadable
    /\ call = Idle
    /\ ret = None
    /\ procs = <<>>
    /\ sessions = <<>>
    /\ hosts = None
    /\ azure \in AzureStates
    /\ connections = None

NextAzure ==
    \/ StartVm
    \/ StopVm
    \/ AddDisk
    \/ NextRequest

SpecAzure == InitAzure /\ [][NextAzure]_vars

(***************************************************************************)
(* Claims about the VM operations                                          *)
(***************************************************************************)
\* a start or stop with wait=True whose operation Azure accepted
WaitedForVm ==
    /\ call.op \in {"start_vm", "stop_vm"}
    /\ call.wait
    /\ Len(azure.begun) > Len(call.before.begun)

\* C24: start_vm and stop_vm with wait=True return status "success" whenever
\* the operation completes before the timeout; the "Timeout waiting for VM"
\* error is returned only when it has not completed within timeout seconds.
C24_SuccessWhenCompleted ==
    WaitedForVm =>
        /\ call.world.done_at < call.timeout => ret.value.status = "success"
        /\ ret.value.status = "error" => call.world.done_at >= call.timeout

\* the operation was complete at the first look at its poller
DoneAtOnce ==
    /\ WaitedForVm
    /\ call.world.done_at = 0
    /\ call.world.shown_at = 0
    /\ call.timeout > 0
    /\ ret.value.status = "error"

\* add_disk returned one of its two LUN errors
LunError ==
    /\ call.op = "add_disk"
    /\ ret.value.status = "error"
    /\ ret.value.message.fmt \in
           {"LUN {0} is already in use.",
            "No available LUN found. VM has maximum number of disks attached."}

\* C28: when add_disk returns an error because the LUN asked for is in use
\* or no LUN in 0..63 is free, no managed disk has been created and the data
\* disks of the VM are unchanged.
C28_LunErrorChangesNothing ==
    LunError =>
        /\ azure.disks = call.before.disks
        /\ azure.vm.data_disks = call.before.vm.data_disks

\* the data disks of the VM are as before a LUN error (the half that holds)
LunErrorKeepsDataDisks ==
    LunError => azure.vm.data_disks = call.before.vm.data_disks

(***************************************************************************)
(* HANA connections (hana_connection.py)                                   *)
(*                                                                         *)
(* connections is [cache, opened]: HanaConnection._connections as          *)
(* [key, value] pairs in insertion order, the value None or [conn |-> n],  *)
(* and every connection hdbcli has opened, the n-th with its kind and      *)
(* whether close_connection has closed it.  An environment variable that   *)
(* is unset and one that is empty are both the empty text.                 *)
(***************************************************************************)
get_env_var(env, name, default) == Get(env, name, default)

\* address and port of the parameters, port as {} for None and {n}
get_connection_params(env, use_system_db) ==
    LET host == get_env_var(env, "HANA_HOST", "")
        port == IF use_system_db
                THEN get_env_var(env, "HANA_SYSTEM_PORT", get_env_var(env, "HANA_PORT", <<>>))
                ELSE get_env_var(env, "HANA_PORT", <<>>)
    IN IF port # <<>> /\ ~IsDigits(port)
       THEN Raise("ValueError", Fmt("invalid literal for int() with base 10: {0}",
                                    <<SidArg(port)>>))
       ELSE Return([address |-> host,
                    port |-> IF port # <<>> THEN {ToInt(port)} ELSE {}])

HasKey(cache, k) == \E i \in DOMAIN cache : cache[i].key = k
Cached(cache, k) == cache[CHOOSE i \in DOMAIN cache : cache[i].key = k].value

\* cls._connections[k] = v
Store(cache, k, v) ==
    IF HasKey(cache, k)
    THEN [i \in DOMAIN cache |-> IF cache[i].key = k THEN [key |-> k, value |-> v]
                                 ELSE cache[i]]
    ELSE Append(cache, [key |-> k, value |-> v])

ConnOutcome(r, conns) == [ret |-> r, connections |-> conns]

\* (mutant) a connection is opened whatever the cache holds
get_connection_always_new(use_system_db, env, world, conns) ==
    LET conn_type == IF use_system_db THEN "system" ELSE "tenant"
        id == Len(conns.opened) + 1
    IN ConnOutcome(Return([conn |-> id]),
                   [cache |-> Store(conns.cache, conn_type, [conn |-> id]),
                    opened |-> Append(conns.opened, [kind |-> conn_type, closed |-> FALSE])])

\* world.connect_fails: hdbcli.dbapi.connect raises
get_connection(use_system_db, env, world, conns) ==
    LET conn_type == IF use_system_db THEN "system" ELSE "tenant"
        id == Len(conns.opened) + 1
        connect(params) ==
            IF params.raised THEN ConnOutcome(params, conns)
            ELSE IF params.value.address = "" \/ params.value.port \in {{}, {0}}
            THEN ConnOutcome(Return(None), conns)
            ELSE IF world.connect_fails
            THEN ConnOutcome(Return(None), conns)
            ELSE ConnOutcome(Return([conn |-> id]),
                             [cache |-> Store(conns.cache, conn_type, [conn |-> id]),
                              opened |-> Append(conns.opened,
                                                [kind |-> conn_type, closed |-> FALSE])])
    IN IF ~HasKey(conns.cache, conn_type) \/ Cached(conns.cache, conn_type) = None
       THEN connect(get_connection_params(env, use_system_db))
       ELSE ConnOutcome(Return(Cached(conns.cache, conn_type)), conns)

\* .close() of the connection cached under k, then the None in its place
CloseCached(conns, k) ==
    [cache |-> Store(conns.cache, k, None),
     opened |-> [conns.opened EXCEPT ![Cached(conns.cache, k).conn].closed = TRUE]]

\* the loop of close_connection() over the cache from its i-th key on;
\* world.close_fails holds the connections whose close() raises
RECURSIVE CloseFrom(_, _, _)
CloseFrom(conns, i, world) ==
    IF i > Len(conns.cache) THEN ConnOutcome(Return(None), conns)
    ELSE IF conns.cache[i].value = None THEN CloseFrom(conns, i + 1, world)
    ELSE IF conns.cache[i].value.conn \in world.close_fails
    THEN ConnOutcome(Raise("Error", Fmt("Connection failed", <<>>)), conns)
    ELSE CloseFrom(CloseCached(conns, conns.cache[i].key), i + 1, world)

\* conn_type is "" when not given
close_connection(conn_type, world, conns) ==
    IF conn_type # ""
    THEN IF HasKey(conns.cache, conn_type) /\ Cached(conns.cache, conn_type) # None
         THEN IF Cached(conns.cache, conn_type).conn \in world.close_fails
              THEN ConnOutcome(Raise("Error", Fmt("Connection failed", <<>>)), conns)
              ELSE ConnOutcome(Return(None), CloseCached(conns, conn_type))
         ELSE ConnOutcome(Return(None), conns)
    ELSE CloseFrom(conns, 1, world)

\* with hana_connection(use_system_db) as conn: the connection yielded; it
\* is not closed on leaving the block
hana_connection(use_system_db, env, world, conns) ==
    get_connection(use_system_db, env, world, conns)

(***************************************************************************)
(* The connection manager in use (SpecConn)                                *)
(***************************************************************************)
MaxConnections == 3     \* connections opened, at most

\* nothing set; host and port; a port for the system database too; a port
\* that is no number; no host; port 0
HanaEnvs ==
    {EmptyDict,
     [HANA_HOST |-> "hana01", HANA_PORT |-> <<51, 48, 48, 49, 53>>],
     [HANA_HOST |-> "hana01", HANA_PORT |-> <<51, 48, 48, 49, 53>>,
      HANA_SYSTEM_PORT |-> <<51, 48, 48, 49, 51>>],
     [HANA_HOST |-> "hana01", HANA_PORT |-> <<120>>],
     [HANA_PORT |-> <<51, 48, 48, 49, 53>>],
     [HANA_HOST |-> "hana01", HANA_PORT |-> <<48>>]}

ConnTypes == {"", "system", "tenant", "other"}

FinishConn(c, outcome) ==
    /\ call' = [c EXCEPT !.before = connections]
    /\ ret' = outcome.ret
    /\ connections' = outcome.connections
    /\ UNCHANGED <<configFile, procs, sessions, hosts, azure>>

GetConnection ==
    /\ call = Idle
    /\ Len(connections.opened) < MaxConnections
    /\ \E use_system_db \in BOOLEAN, env \in HanaEnvs, connect_fails \in BOOLEAN :
          FinishConn([op |-> "get_connection", use_system_db |-> use_system_db,
                      env |-> env, connect_fails |-> connect_fails, before |-> None],
                     get_connection(use_system_db, env, [connect_fails |-> connect_fails],
                                    connections))

HanaConnectionBlock ==
    /\ call = Idle
    /\ Len(connections.opened) < MaxConnections
    /\ \E use_system_db \in BOOLEAN, env \in HanaEnvs, connect_fails \in BOOLEAN :
          FinishConn([op |-> "hana_connection", use_system_db |-> use_system_db,
                      env |-> env, connect_fails |-> connect_fails, before |-> None],
                     hana_connection(use_system_db, env, [connect_fails |-> connect_fails],
                                     connections))

CloseConnection ==
    /\ call = Idle
    /\ \E conn_type \in ConnTypes, close_fails \in SUBSET (1 .. Len(connections.opened)) :
          FinishConn([op |-> "close_connection", conn_type |-> conn_type,
                      close_fails |-> close_fails, before |-> None],
                     close_connection(conn_type, [close_fails |-> close_fails], connections))

InitConn ==
    /\ configFile = Unreadable
    /\ call = Idle
    /\ ret = None
    /\ procs = <<>>
    /\ sessions = <<>>
    /\ hosts = None
    /\ azure = None
    /\ connections = [cache |-> <<>>, opened |-> <<>>]

NextConn ==
    \/ GetConnection
    \/ HanaConnectionBlock
    \/ CloseConnection
    \/ NextRequest

SpecConn == InitConn /\ [][NextConn]_vars

(***************************************************************************)
(* Claims about the connection manager                                     *)
(***************************************************************************)
\* the kind a get_connection or hana_connection call asked for
KindAsked == IF call.use_system_db THEN "system" ELSE "tenant"

GotConnection == call.op \in {"get_connection", "hana_connection"}

\* C29: every connection opened and not yet closed by close_connection is
\* the one cached for its kind, so at most one per kind is open; a call of
\* get_connection opens a connection only when none is cached for the kind,
\* and leaves the cache unchanged when it returns no connection.
C29_OneOpenPerKind ==
    /\ \A n \in DOMAIN connections.opened :
           ~connections.opened[n].closed =>
               /\ HasKey(connections.cache, connections.opened[n].kind)
               /\ Cached(connections.cache, connections.opened[n].kind) = [conn |-> n]
    /\ GotConnection =>
           /\ Len(connections.opened) > Len(call.before.opened) =>
                  \/ ~HasKey(call.before.cache, KindAsked)
                  \/ Cached(call.before.cache, KindAsked) = None
           /\ (ret.raised \/ ret = Return(None)) => connections = call.before

\* the cached tenant connection is handed out again after the system
\* connection was opened and closed
C29_Witness ==
    /\ call.op = "get_connection"
    /\ ~call.use_system_db
    /\ connections = call.before
    /\ \E n \in DOMAIN connections.opened :
           /\ ret = Return([conn |-> n])
           /\ connections.opened[n] = [kind |-> "tenant", closed |-> FALSE]
    /\ \E n \in DOMAIN connections.opened :
           connections.opened[n] = [kind |-> "system", closed |-> TRUE]

=============================================================================
